---- MODULE Spec2Model ----
(***************************************************************************)
(* CloudFall: tick-based infrastructure simulation.                        *)
(*                                                                         *)
(* The model follows the JavaScript sources: the game loop (GameLoop,      *)
(* Clock, EventBus), the game state and its metrics (GameState), the       *)
(* service registry (ServiceRegistry), the traffic generator               *)
(* (TrafficGenerator) and the service variants (BaseService, AWSCompute,   *)
(* AWSWAF, AWSDatabase, AWSLoadBalancer, AWSCache, AWSQueue).              *)
(*                                                                         *)
(* Numbers.  JavaScript numbers are doubles; the model keeps them exact:   *)
(*   - reputation is kept in tenths of a point (0.5 per drop = 5 tenths,   *)
(*     0.1 per block = 1 tenth), so 100 points are 1000;                   *)
(*   - availability is kept as the pair (p, t) it is computed from, its    *)
(*     value being 100 * p / t percent;                                    *)
(*   - a load ratio is kept as the pair (num, den) = (offered, capacity);  *)
(*     a comparison "load > th" with th given in hundredths is             *)
(*     100 * num > th * den;                                               *)
(*   - CPU credits of a burstable instance are kept in units of            *)
(*     1 / (5 * capacity) credit, which makes the earn rate (0.2) and the  *)
(*     consumption ((load * 100 - 20) / 100 * 60) integers.                *)
(* Math.random() is a nondeterministic choice made by the action.          *)
(***************************************************************************)
EXTENDS Integers, Sequences, FiniteSets, TLC

VARIABLES
    now,              \* wall clock, in seconds
    tick,             \* gameState.tick
    isRunning,        \* gameState.isRunning
    metrics,          \* gameState.metrics
    costs,            \* gameState.providers[p].totalCost and gameState.metrics.totalCost
    currentRequests,  \* gameState.currentRequests
    gsServices,       \* keys of gameState.services
    providers,        \* gameState.providers[p].services
    clock,            \* Clock: isRunning, tickCount, timer (due time of the interval)
    regServices,      \* keys of ServiceRegistry.services, in insertion order
    instances,        \* the service objects, by id
    nextId,           \* ids handed out so far (BaseService.generateId is unique)
    connections,      \* gameState.connections: service id -> connected ids
    generator,        \* TrafficGenerator fields
    timeouts,         \* pending setTimeout callbacks, in creation order
    eventHistory,     \* EventBus.eventHistory
    subscribers,      \* handlers added with eventBus.on and clock.addCallback after construction
    tickResults,      \* what ServiceRegistry.processRequests returned last
    svcResults,       \* what each service's processRequests returned last
    inspection,       \* what AWSWAF.inspectRequest returned to its last caller
    registryCall,     \* the last deployService or removeService: what it was given, what it returned
    invoked,          \* the handlers and callbacks invoked by the last clock firing or tick, in order
    snapshot,         \* the snapshot getSnapshot() returned last, as its holder has it now
    calls,            \* calls made to the game so far
    lastCall          \* the step taken last: the operation and its argument

loopVars == <<tick, isRunning, metrics, costs, currentRequests, eventHistory, subscribers>>
topoVars == <<gsServices, providers, regServices, instances, nextId, connections>>
timeVars == <<now, clock, timeouts>>
obsVars  == <<tickResults, svcResults, inspection, registryCall, invoked, snapshot>>
vars == <<now, tick, isRunning, metrics, costs, currentRequests, gsServices, providers,
          clock, regServices, instances, nextId, connections, generator, timeouts,
          eventHistory, subscribers, tickResults, svcResults, inspection, registryCall,
          invoked, snapshot, calls, lastCall>>

----------------------------------------------------------------------------
(* Bounds of the model *)

MaxTime == 2          \* seconds of wall clock explored
MaxTickNumber == 2    \* largest tick number a tick is executed with
MaxDeploys == 2       \* service instances created in one run
MaxSpikes == 2        \* spike timers pending at once
MaxCalls == 3         \* calls made to the game in one run
EventsPerTick == 6    \* main.js 171-201: five stage events and game_over
MaxEvents == EventsPerTick * MaxTickNumber   \* history length at which ticks stop

(* Program constants *)

SlaThreshold == 90            \* metrics.slaThreshold
InitialReputation == 1000     \* metrics.reputation = 100, in tenths
DropPenalty == 5              \* dropped * 0.5, in tenths
BlockBonus == 1               \* blocked * 0.1, in tenths
MaxReputation == 1000         \* Math.min(100, ...), in tenths
TickInterval == 1             \* new Clock(1000): one second
AttackVolumeBase == 50        \* Math.floor(Math.random() * 100) + 50
AttackDurationBase == 5       \* Math.floor(Math.random() * 10) + 5
BotPercent == 15              \* botRatio = 0.15
NoTimer == -1                 \* clock.timer = null

Providers == {"aws", "gcp", "azure"}

Min(a, b) == IF a < b THEN a ELSE b
Max(a, b) == IF a > b THEN a ELSE b

Range(s) == { s[i] : i \in DOMAIN s }

----------------------------------------------------------------------------
(* GameState *)

\* gameState.js 18-29 and 153-164: the initial metrics
InitialMetrics ==
    [ availability      |-> [p |-> 1, t |-> 1],
      reputation        |-> InitialReputation,
      requestsProcessed |-> 0,
      requestsDropped   |-> 0,
      requestsBlocked   |-> 0,
      slaThreshold      |-> SlaThreshold,
      gameOver          |-> FALSE,
      gameOverReason    |-> "none" ]

InitialProviders == [ p \in Providers |-> <<>> ]

\* availability < threshold, for availability = 100 * p / t
AvailabilityBelow(a, threshold) == 100 * a.p < threshold * a.t

\* checkGameOverConditions with the two tests in the other order
CheckGameOverSlaFirst(m) ==
    IF AvailabilityBelow(m.availability, m.slaThreshold)
    THEN [m EXCEPT !.gameOver = TRUE, !.gameOverReason = "sla"]
    ELSE IF m.reputation <= 0
         THEN [m EXCEPT !.gameOver = TRUE, !.gameOverReason = "reputation"]
         ELSE m

\* GameState.checkGameOverConditions
CheckGameOverConditions(m) ==
    IF m.reputation <= 0
    THEN [m EXCEPT !.gameOver = TRUE, !.gameOverReason = "reputation"]
    ELSE IF AvailabilityBelow(m.availability, m.slaThreshold)
         THEN [m EXCEPT !.gameOver = TRUE, !.gameOverReason = "sla"]
         ELSE m

\* the reputation step without Math.max(0, ...)
NewReputationNoFloor(rep, dropped, blocked) ==
    Min(MaxReputation, rep - dropped * DropPenalty + blocked * BlockBonus)

\* the reputation step with a whole point taken per dropped request
NewReputationWholePoint(rep, dropped, blocked) ==
    Max(0, Min(MaxReputation, rep - dropped * 2 * DropPenalty + blocked * BlockBonus))

\* the reputation step of GameState.updateMetrics
NewReputation(rep, dropped, blocked) ==
    Max(0, Min(MaxReputation, rep - dropped * DropPenalty + blocked * BlockBonus))

\* GameState.updateMetrics, lines 85-106 and 123 (the cost part, lines 108-120,
\* is UpdateCosts)
UpdateMetrics(m, r) ==
    LET total == r.processed + r.dropped
        m1 == [m EXCEPT
                 !.requestsProcessed = @ + r.processed,
                 !.requestsDropped   = @ + r.dropped,
                 !.requestsBlocked   = @ + r.blocked,
                 !.availability = IF total > 0
                                  THEN [p |-> r.processed, t |-> total]
                                  ELSE @,
                 !.reputation = NewReputation(@, r.dropped, r.blocked)]
    IN  CheckGameOverConditions(m1)

\* Object.values(this.providers): the providers in the order of their keys
ProviderOrder == <<"aws", "gcp", "azure">>

\* service.getCost(): a number the instance's fields determine; the model
\* keeps it as the term it is computed from
GetCost(s) == [costOf |-> s]

\* the totals before any update: 0, the empty sum
InitialCosts == [providers |-> [p \in Providers |-> <<>>], metrics |-> <<>>]

\* the loop over provider.services of updateMetrics (lines 112-119): the
\* terms added to a total that starts at 0, in order; an id without a service
\* in this.services adds nothing
RECURSIVE ProviderCost(_, _, _)
ProviderCost(ids, svcs, insts) ==
    IF ids = <<>> THEN <<>>
    ELSE (IF Head(ids) \in svcs THEN <<GetCost(insts[Head(ids)])>> ELSE <<>>)
         \o ProviderCost(Tail(ids), svcs, insts)

\* GameState.updateMetrics, lines 108-120: provider.totalCost of every
\* provider and metrics.totalCost, rebuilt from 0
UpdateCosts(provs, svcs, insts) ==
    LET of(p) == ProviderCost(provs[p], svcs, insts)
    IN  [ providers |-> [p \in Providers |-> of(p)],
          metrics |-> of(ProviderOrder[1]) \o of(ProviderOrder[2]) \o of(ProviderOrder[3]) ]

----------------------------------------------------------------------------
(* Requests *)

\* request.js 6-27; generator.js 204-223 (paths).  Only the type and the path
\* of a request decide how a service treats it.  No path of a user or a bot
\* request matches a firewall rule: they are modelled as "/".  Of the attack
\* paths, "/../../etc/passwd" matches one and "/admin" stands for the others.

NewRequest(type, path) == [type |-> type, path |-> path]

----------------------------------------------------------------------------
(* Service variants *)

Kinds == {"compute", "waf", "database", "loadbalancer", "cache", "queue"}

\* constructor defaults: config.capacity || default
DefaultCapacity(kind) ==
    CASE kind = "compute"      -> 500
      [] kind = "waf"          -> 25000
      [] kind = "database"     -> 1000
      [] kind = "loadbalancer" -> 1000
      [] kind = "cache"        -> 10000
      [] kind = "queue"        -> 3000

\* constructor defaults: config.baseCost || default, in 1/10000 dollar
DefaultBaseCost(kind) ==
    CASE kind = "compute"      -> 500
      [] kind = "waf"          -> 6000
      [] kind = "database"     -> 170
      [] kind = "loadbalancer" -> 250
      [] kind = "cache"        -> 340
      [] kind = "queue"        -> 4

\* this.degradationThreshold, in hundredths
DegradationThreshold(kind) ==
    CASE kind = "compute"      -> 70
      [] kind = "waf"          -> 95
      [] kind = "database"     -> 80
      [] kind = "loadbalancer" -> 90
      [] kind = "cache"        -> 85
      [] kind = "queue"        -> 90

\* this.failureThreshold, in hundredths
FailureThreshold(kind) ==
    CASE kind = "compute"      -> 130
      [] kind = "waf"          -> 250
      [] kind = "database"     -> 120
      [] kind = "loadbalancer" -> 150
      [] kind = "cache"        -> 180
      [] kind = "queue"        -> 200

\* AWSDatabase.calculateMaxConnections
CalculateMaxConnections(instanceClass) ==
    CASE instanceClass = "db.t3.micro"  -> 85
      [] instanceClass = "db.t3.medium" -> 150
      [] OTHER -> 100

\* AWSCompute constructor: instanceFamily.startsWith('t')
IsBurstableType(instanceType) == instanceType \in {"t3.medium", "t3.micro"}

CreditInitial == 30     \* cpuCredits.initial
CreditMaximum == 144    \* cpuCredits.maximum
CreditBaseline == 20    \* cpuCredits.baseline, percent
CreditUnit == 5         \* 1 / earnRate (0.2): credits are kept in 1/(5*capacity)
CreditPerMinute == 60   \* (burstUtilization / 100) * 60
SpotRisk == 5           \* interruptionRisk 0.05, in hundredths
HighRisk == 10          \* interruptionRisk > 0.1, in hundredths
BurstLimit == 50        \* loadRatio > 0.5, in hundredths

\* AWSWAF.addManagedRuleGroup, as called from initializeManagedRules
ManagedRule(groupName, n) ==
    [ id |-> <<"managed", n>>, type |-> "MANAGED", group |-> groupName,
      priority |-> n, action |-> "BLOCK", conditions |-> <<>> ]

DefaultManagedRules ==
    << ManagedRule("AWSManagedRulesCommonRuleSet", 1),
       ManagedRule("AWSManagedRulesKnownBadInputsRuleSet", 2),
       ManagedRule("AWSManagedRulesAmazonIpReputationList", 3) >>

\* AWSWAF.addCustomRule
CustomRule(ruleConfig, n) ==
    [ id |-> <<"custom", n>>, type |-> "CUSTOM", group |-> "",
      priority |-> ruleConfig.priority, action |-> ruleConfig.action,
      conditions |-> ruleConfig.conditions ]

\* config.autoScaling with nothing given (0: not given)
NoAutoScaling ==
    [ enabled |-> FALSE, minInstances |-> 0, maxInstances |-> 0, desiredCapacity |-> 0,
      cooldownPeriod |-> 0 ]

\* AWSCompute constructor, lines 34-42: config.autoScaling?.x || default
AutoScalingOf(given) ==
    [ enabled |-> given.enabled,
      minInstances |-> IF given.minInstances = 0 THEN 1 ELSE given.minInstances,
      maxInstances |-> IF given.maxInstances = 0 THEN 10 ELSE given.maxInstances,
      desiredCapacity |-> IF given.desiredCapacity = 0 THEN 1 ELSE given.desiredCapacity,
      scaleUpThreshold |-> 70,
      scaleDownThreshold |-> 30,
      cooldownPeriod |-> IF given.cooldownPeriod = 0 THEN 300 ELSE given.cooldownPeriod ]

\* A configuration the instance handed to deployService is made from (one
\* record shape for all kinds; a kind reads only its own fields).  provider is
\* the provider field the instance has when it is handed over (the AWS
\* constructors set 'aws'); baseCost 0 stands for no baseCost given.
Config(kind, capacity) ==
    [ kind |-> kind, capacity |-> capacity, instanceType |-> "t3.medium",
      instanceClass |-> "db.t3.micro", spotInstance |-> FALSE,
      reservedInstance |-> FALSE, multiAZ |-> FALSE, defaultAction |-> "ALLOW",
      customRules |-> <<>>, provider |-> "aws", baseCost |-> 0,
      autoScaling |-> NoAutoScaling ]

\* The constructors: BaseService, AWSCompute, AWSWAF, AWSDatabase, ...
NewService(id, cfg) ==
    LET cap == IF cfg.capacity = 0 THEN DefaultCapacity(cfg.kind) ELSE cfg.capacity
        burst == cfg.kind = "compute" /\ IsBurstableType(cfg.instanceType)
    IN  [ id |-> id,
          kind |-> cfg.kind,
          provider |-> cfg.provider,
          baseCost |-> IF cfg.baseCost = 0 THEN DefaultBaseCost(cfg.kind) ELSE cfg.baseCost,
          instanceType |-> cfg.instanceType,
          capacity |-> cap,
          maxConnections |-> IF cfg.kind = "database"
                             THEN CalculateMaxConnections(cfg.instanceClass) ELSE 0,
          currentLoad |-> [num |-> 0, den |-> 1],
          health |-> "healthy",
          isBurstable |-> burst,
          cpuCredits |-> IF burst THEN CreditInitial * CreditUnit * cap ELSE 0,
          spotInstance |-> cfg.kind = "compute" /\ cfg.spotInstance,
          reservedInstance |-> cfg.kind = "compute" /\ cfg.reservedInstance,
          multiAZ |-> cfg.kind = "database" /\ cfg.multiAZ,
          autoScaling |-> AutoScalingOf(cfg.autoScaling),
          lastScalingAction |-> 0,
          availabilityZone |-> "us-east-1a",
          secondaryAZ |-> "us-east-1b",
          defaultAction |-> cfg.defaultAction,
          rules |-> IF cfg.kind = "waf"
                    THEN DefaultManagedRules \o
                         [i \in 1..Len(cfg.customRules) |-> CustomRule(cfg.customRules[i], i)]
                    ELSE <<>>,
          blockedRequests |-> 0 ]

\* AWSCompute.validate: validInstanceTypes
ValidInstanceTypes ==
    { "t3.nano", "t3.micro", "t3.small", "t3.medium", "t3.large", "t3.xlarge",
      "m5.large", "m5.xlarge", "c5.large", "c5.xlarge" }

\* validate() with only the capacity rule
ValidateCapacityOnly(s) ==
    IF s.capacity <= 0 THEN {"capacity"} ELSE {}

\* BaseService.validate, AWSCompute.validate and AWSWAF.validate: the violated
\* rules (an instance of the model always has a name and the default tenancy,
\* scaling limits, volume size, scope and sampling rate)
Validate(s) ==
    (IF s.provider \notin Providers THEN {"provider"} ELSE {})
    \cup (IF s.capacity <= 0 THEN {"capacity"} ELSE {})
    \cup (IF s.baseCost < 0 THEN {"cost"} ELSE {})
    \cup (IF s.kind = "compute" /\ s.instanceType \notin ValidInstanceTypes
          THEN {"instance type"} ELSE {})
    \cup (IF s.kind = "compute" /\ s.spotInstance /\ s.reservedInstance
          THEN {"spot and reserved"} ELSE {})
    \cup (IF s.kind = "waf" /\ s.defaultAction \notin {"ALLOW", "BLOCK"}
          THEN {"default action"} ELSE {})
    \cup (IF s.kind = "waf" /\ \E i, j \in DOMAIN s.rules :
                                   i < j /\ s.rules[i].priority = s.rules[j].priority
          THEN {"duplicate priority"} ELSE {})

\* loadRatio > th, th in hundredths
LoadAbove(load, th) == 100 * load.num > th * load.den

\* updateHealth that leaves a failed instance failed
BaseUpdateHealthSticky(s, load) ==
    IF s.health = "failed" \/ LoadAbove(load, FailureThreshold(s.kind)) THEN "failed"
    ELSE IF LoadAbove(load, DegradationThreshold(s.kind)) THEN "degraded"
    ELSE "healthy"

\* BaseService.updateHealth
BaseUpdateHealth(s, load) ==
    IF LoadAbove(load, FailureThreshold(s.kind)) THEN "failed"
    ELSE IF LoadAbove(load, DegradationThreshold(s.kind)) THEN "degraded"
    ELSE "healthy"

\* AWSCompute.updateHealth without the CPU credit test
ComputeUpdateHealthNoCredits(s, load) ==
    IF s.spotInstance /\ SpotRisk > HighRisk THEN "degraded" ELSE BaseUpdateHealth(s, load)

\* AWSCompute.updateHealth (s holds the credits as updateCpuCredits left them)
ComputeUpdateHealth(s, load) ==
    LET h0 == BaseUpdateHealth(s, load)
        h1 == IF s.isBurstable /\ s.cpuCredits <= 0 /\ LoadAbove(load, BurstLimit)
              THEN "degraded" ELSE h0
    IN  IF s.spotInstance /\ SpotRisk > HighRisk THEN "degraded" ELSE h1

\* updateHealth as the instance's class dispatches it
UpdateHealth(s, load) ==
    IF s.kind = "compute" THEN ComputeUpdateHealth(s, load) ELSE BaseUpdateHealth(s, load)

\* AWSCompute.updateCpuCredits, n requests offered
UpdateCpuCredits(s, n) ==
    IF ~s.isBurstable THEN s.cpuCredits
    ELSE IF 100 * n <= CreditBaseline * s.capacity
         THEN Min(CreditMaximum * CreditUnit * s.capacity, s.cpuCredits + s.capacity)
         ELSE Max(0, s.cpuCredits
                     - (CreditUnit * CreditPerMinute * n
                        - (CreditUnit * CreditPerMinute * CreditBaseline * s.capacity) \div 100))

\* shouldDropRequest without its first test (this.health === 'failed')
DropCountsLoadOnly(s, health, load, n) ==
    LET ft == FailureThreshold(s.kind)
    IN  IF LoadAbove(load, ft)
        THEN IF 100 * load.num >= 2 * ft * load.den THEN {n} ELSE 0..n
        ELSE {0}

\* shouldDropRequest that starts dropping when the instance is degraded
DropCountsWhenDegraded(s, health, load, n) ==
    IF health = "failed" THEN {n}
    ELSE IF health = "degraded" THEN 0..n
    ELSE {0}

\* BaseService.shouldDropRequest, for a batch of n requests: the numbers of
\* requests that can end up dropped.  Math.random() < p drops every request when
\* p >= 1 and may drop any of them when 0 < p < 1.
DropCounts(s, health, load, n) ==
    LET ft == FailureThreshold(s.kind)
    IN  IF health = "failed" THEN {n}
        ELSE IF LoadAbove(load, ft)
             THEN IF 100 * load.num >= 2 * ft * load.den THEN {n} ELSE 0..n
             ELSE {0}

----------------------------------------------------------------------------
(* AWSWAF: rule evaluation *)

\* The request content the managed rule groups match on, for the paths of the
\* model: evaluateCommonRuleSet (injection and XSS patterns) and
\* evaluateKnownBadInputs (../../ and /etc/passwd).
MaliciousPatternPaths == {"/?q=<script>"}
BadInputPaths == {"/../../etc/passwd"}

\* AWSWAF.evaluateManagedRule.  A request carries no clientIp, so the IP
\* reputation list sees 127.0.0.1 and never matches.
EvaluateManagedRule(req, rule) ==
    CASE rule.group = "AWSManagedRulesCommonRuleSet" -> req.path \in MaliciousPatternPaths
      [] rule.group = "AWSManagedRulesKnownBadInputsRuleSet" -> req.path \in BadInputPaths
      [] OTHER -> FALSE

\* AWSWAF.extractFieldValue (a request of the game carries only a path)
ExtractFieldValue(req, field) ==
    IF field.type = "URI" THEN req.path ELSE ""

\* evaluateCondition taking the default branch of its switch
EvaluateConditionNoMatch(fieldValue, condition) == FALSE

\* AWSWAF.evaluateCondition (the operators the model's rules use)
EvaluateCondition(fieldValue, condition) ==
    CASE condition.operator = "EXACTLY_MATCHES" -> fieldValue = condition.value
      [] OTHER -> FALSE

\* AWSWAF.evaluateCustomRule: conditions.every(...)
EvaluateCustomRule(req, rule) ==
    \A i \in DOMAIN rule.conditions :
        EvaluateCondition(ExtractFieldValue(req, rule.conditions[i].field), rule.conditions[i])

\* AWSWAF.evaluateRule: does the rule match
EvaluateRule(req, rule) ==
    CASE rule.type = "MANAGED" -> EvaluateManagedRule(req, rule)
      [] rule.type = "CUSTOM"  -> EvaluateCustomRule(req, rule)
      [] OTHER -> FALSE

\* Array.prototype.sort((a, b) => a.priority - b.priority): stable
RECURSIVE InsertByPriority(_, _)
InsertByPriority(sorted, rule) ==
    IF sorted = <<>> THEN <<rule>>
    ELSE IF Head(sorted).priority <= rule.priority
         THEN <<Head(sorted)>> \o InsertByPriority(Tail(sorted), rule)
         ELSE <<rule>> \o sorted

RECURSIVE SortRules(_)
SortRules(rules) ==
    IF rules = <<>> THEN <<>>
    ELSE InsertByPriority(SortRules(SubSeq(rules, 1, Len(rules) - 1)), rules[Len(rules)])

\* the combined rule list of getSortedRules without the sort
GetRulesUnsorted(s) == s.rules

\* AWSWAF.getSortedRules
GetSortedRules(s) == SortRules(s.rules)

\* the terminating actions with COUNT among them
TerminatingActionsWithCount == {"BLOCK", "ALLOW", "CAPTCHA", "CHALLENGE", "COUNT"}

\* inspectRequest: the actions that end the inspection
TerminatingActions == {"BLOCK", "ALLOW", "CAPTCHA", "CHALLENGE"}

\* the loop of AWSWAF.inspectRequest over the sorted rules
RECURSIVE InspectFrom(_, _, _, _)
InspectFrom(rules, req, defaultAction, matched) ==
    IF rules = <<>>
    THEN [action |-> defaultAction, matchedRules |-> matched, terminatingRule |-> <<>>]
    ELSE LET rule == Head(rules)
         IN  IF EvaluateRule(req, rule)
             THEN IF rule.action \in TerminatingActions
                  THEN [action |-> rule.action,
                        matchedRules |-> Append(matched, rule.id),
                        terminatingRule |-> rule.id]
                  ELSE InspectFrom(Tail(rules), req, defaultAction, Append(matched, rule.id))
             ELSE InspectFrom(Tail(rules), req, defaultAction, matched)

\* AWSWAF.inspectRequest
InspectRequest(s, req) == InspectFrom(GetSortedRules(s), req, s.defaultAction, <<>>)

----------------------------------------------------------------------------
(* processRequests of the variants *)

\* requests.length / this.capacity; AWSDatabase divides by maxConnections
LoadRatio(s, n) ==
    [num |-> n, den |-> IF s.kind = "database" THEN s.maxConnections ELSE s.capacity]

Outcome(s, processed, dropped, blocked) ==
    [svc |-> s, processed |-> processed, dropped |-> dropped, blocked |-> blocked,
     failover |-> FALSE]

\* AWSDatabase.handleFailover: the whole batch is returned as dropped and a
\* timeout is set (failover: the caller of the model sets the timer)
HandleFailover(s, n) == [Outcome(s, 0, n, 0) EXCEPT !.failover = TRUE]

\* The sets of positions of a batch of n requests that can be the dropped ones
DroppedPositions(n, counts) ==
    IF counts = {0} THEN {{}}
    ELSE IF counts = {n} THEN {1..n}
    ELSE SUBSET (1..n)

\* Date.now() at the start of the run, in seconds: more than any cooldown
ClockEpoch == 1000

\* Date.now() when the model's time is t, in seconds
DateNow(t) == ClockEpoch + t

\* this.currentCpuUtilization (Math.min(100, loadRatio * 100)) > th
CpuAbove(load, th) == th < 100 /\ 100 * load.num > th * load.den

\* this.currentCpuUtilization < th
CpuBelow(load, th) == th > 100 \/ 100 * load.num < th * load.den

\* AWSCompute.scaleUp (the capacities of the model divide without remainder)
ScaleUp(s) ==
    LET newCapacity == Min(s.autoScaling.maxInstances, s.autoScaling.desiredCapacity + 1)
    IN  IF newCapacity > s.autoScaling.desiredCapacity
        THEN [s EXCEPT !.autoScaling.desiredCapacity = newCapacity,
                       !.capacity = (@ * newCapacity) \div (newCapacity - 1)]
        ELSE s

\* AWSCompute.scaleDown
ScaleDown(s) ==
    LET newCapacity == Max(s.autoScaling.minInstances, s.autoScaling.desiredCapacity - 1)
    IN  IF newCapacity < s.autoScaling.desiredCapacity
        THEN [s EXCEPT !.autoScaling.desiredCapacity = newCapacity,
                       !.capacity = (@ * newCapacity) \div (newCapacity + 1)]
        ELSE s

\* evaluateAutoScaling without its cooldown test
EvaluateAutoScalingNoCooldown(s, t) ==
    LET a == s.autoScaling
    IN  IF ~a.enabled THEN s
        ELSE IF CpuAbove(s.currentLoad, a.scaleUpThreshold)
                /\ a.desiredCapacity < a.maxInstances
        THEN [ScaleUp(s) EXCEPT !.lastScalingAction = DateNow(t)]
        ELSE IF CpuBelow(s.currentLoad, a.scaleDownThreshold)
                /\ a.desiredCapacity > a.minInstances
        THEN [ScaleDown(s) EXCEPT !.lastScalingAction = DateNow(t)]
        ELSE s

\* AWSCompute.evaluateAutoScaling at the model's time t
EvaluateAutoScaling(s, t) ==
    LET a == s.autoScaling
    IN  IF ~a.enabled THEN s
        ELSE IF DateNow(t) - s.lastScalingAction < a.cooldownPeriod THEN s
        ELSE IF CpuAbove(s.currentLoad, a.scaleUpThreshold)
                /\ a.desiredCapacity < a.maxInstances
        THEN [ScaleUp(s) EXCEPT !.lastScalingAction = DateNow(t)]
        ELSE IF CpuBelow(s.currentLoad, a.scaleDownThreshold)
                /\ a.desiredCapacity > a.minInstances
        THEN [ScaleDown(s) EXCEPT !.lastScalingAction = DateNow(t)]
        ELSE s

\* AWSCompute.processRequests at the model's time t
ComputeProcessRequests(s, reqs, t) ==
    LET n == Len(reqs)
        load == LoadRatio(s, n)
        s1 == [s EXCEPT !.currentLoad = load, !.cpuCredits = UpdateCpuCredits(s, n)]
        h == UpdateHealth(s1, load)
        s2 == EvaluateAutoScaling([s1 EXCEPT !.health = h], t)
    IN  (IF s.spotInstance THEN {Outcome(s1, 0, n, 0)} ELSE {})
        \cup { Outcome(s2, n - d, d, 0) : d \in DropCounts(s2, h, load, n) }

\* AWSWAF.processRequests when the requests at the positions D are the ones
\* shouldDropRequest drops
WAFOutcome(s, reqs, D) ==
    LET n == Len(reqs)
        load == LoadRatio(s, n)
        h == UpdateHealth(s, load)
        kept == (1..n) \ D
        blocked == { i \in kept : InspectRequest(s, reqs[i]).action = "BLOCK" }
        b == Cardinality(blocked)
    IN  Outcome([s EXCEPT !.currentLoad = load, !.health = h, !.blockedRequests = @ + b],
                Cardinality(kept) - b, Cardinality(D), b)

\* the positions AWSWAF.processRequests can drop
WAFDroppedPositions(s, reqs) ==
    LET n == Len(reqs)
        load == LoadRatio(s, n)
    IN  DroppedPositions(n, DropCounts(s, UpdateHealth(s, load), load, n))

\* request.wafAction of the requests of the batch after AWSWAF.processRequests
\* ("" for a dropped request, which is not inspected)
WAFActions(s, reqs, D) ==
    [i \in 1..Len(reqs) |-> IF i \in D THEN "" ELSE InspectRequest(s, reqs[i]).action]

\* AWSWAF.processRequests
WAFProcessRequests(s, reqs) ==
    { WAFOutcome(s, reqs, D) : D \in WAFDroppedPositions(s, reqs) }

\* AWSDatabase.processRequests
DatabaseProcessRequests(s, reqs) ==
    LET n == Len(reqs)
        load == LoadRatio(s, n)
        h == UpdateHealth(s, load)
        s1 == [s EXCEPT !.currentLoad = load, !.health = h]
    IN  (IF s.multiAZ THEN {HandleFailover(s1, n)} ELSE {})
        \cup { Outcome(s1, n - d, d, 0) : d \in DropCounts(s1, h, load, n) }

\* AWSLoadBalancer, AWSCache and AWSQueue processRequests: load, health, drops
PlainProcessRequests(s, reqs) ==
    LET n == Len(reqs)
        load == LoadRatio(s, n)
        h == UpdateHealth(s, load)
        s1 == [s EXCEPT !.currentLoad = load, !.health = h]
    IN  { Outcome(s1, n - d, d, 0) : d \in DropCounts(s1, h, load, n) }

\* service.processRequests(requests): every result the call can have
ServiceProcessRequests(s, reqs, t) ==
    IF Len(reqs) = 0 THEN {Outcome(s, 0, 0, 0)}
    ELSE CASE s.kind = "compute"  -> ComputeProcessRequests(s, reqs, t)
           [] s.kind = "waf"      -> WAFProcessRequests(s, reqs)
           [] s.kind = "database" -> DatabaseProcessRequests(s, reqs)
           [] OTHER               -> PlainProcessRequests(s, reqs)

\* BaseService.reset
ResetService(s) == [s EXCEPT !.currentLoad = [num |-> 0, den |-> 1], !.health = "healthy"]

----------------------------------------------------------------------------
(* ServiceRegistry *)

\* routing that cuts the batch into k runs of consecutive requests, the
\* longer ones first
RouteShareInBlocks(requests, j, k) ==
    LET n == Len(requests)
        size(i) == n \div k + (IF i <= n % k THEN 1 ELSE 0)
        first == (j - 1) * (n \div k) + Min(j - 1, n % k) + 1
    IN  SubSeq(requests, first, first + size(j) - 1)

\* ServiceRegistry.routeRequests: the share of the service at position j of k
RouteShare(requests, j, k) ==
    LET count == IF Len(requests) < j THEN 0 ELSE (Len(requests) - j) \div k + 1
    IN  [m \in 1..count |-> requests[(m - 1) * k + j]]

\* ServiceRegistry.routeRequests: service id -> its requests (no entry for a
\* service that got none, none at all without services)
RouteRequests(order, requests) ==
    LET k == Len(order)
        served == { j \in 1..k : j <= Len(requests) }
    IN  [ id \in { order[j] : j \in served } |->
            RouteShare(requests, CHOOSE j \in served : order[j] = id, k) ]

\* the loop of ServiceRegistry.processRequests over the routed services:
\* every way it can end, with the totals it accumulates
RECURSIVE ProcessRouted(_, _, _, _, _)
ProcessRouted(ids, routed, insts, acc, t) ==
    IF ids = <<>> THEN {[acc EXCEPT !.instances = insts]}
    ELSE LET id == Head(ids)
         IN  IF id \notin DOMAIN routed
             THEN ProcessRouted(Tail(ids), routed, insts, acc, t)
             ELSE UNION { ProcessRouted(Tail(ids), routed,
                              [insts EXCEPT ![id] = o.svc],
                              [acc EXCEPT !.processed = @ + o.processed,
                                          !.dropped = @ + o.dropped,
                                          !.results = @ @@ (id :> [offered |-> Len(routed[id]),
                                                                   processed |-> o.processed,
                                                                   dropped |-> o.dropped,
                                                                   blocked |-> o.blocked])],
                              t)
                          : o \in ServiceProcessRequests(insts[id], routed[id], t) }

\* no deployService or removeService yet
NoRegistryCall == [op |-> "", given |-> 0, returned |-> FALSE]

\* no request inspected yet
NoInspection == [action |-> "", matchedRules |-> <<>>, terminatingRule |-> <<>>]

NoResults == [services |-> 0, offered |-> 0, processed |-> 0, dropped |-> 0, blocked |-> 0]
EmptyMap == [x \in {} |-> 0]

\* ServiceRegistry.processRequests: every way the call can end: the instances,
\* the per-service results, the totals it returns and whether it reached
\* gameState.updateMetrics
RegistryProcessRequests(order, insts, requests, t) ==
    IF Len(requests) = 0
    THEN {[instances |-> insts, results |-> EmptyMap, processed |-> 0, dropped |-> 0,
           blocked |-> 0, updated |-> FALSE]}
    ELSE ProcessRouted(order, RouteRequests(order, requests), insts,
                       [instances |-> insts, results |-> EmptyMap, processed |-> 0,
                        dropped |-> 0, blocked |-> 0, updated |-> TRUE], t)

----------------------------------------------------------------------------
(* TrafficGenerator *)

\* baseTrafficRate * (1 + trafficGrowthRate)^tick * getTimePattern(tick), in
\* millionths, for tick 0, 1, 2, ...: generator.js 66-100 evaluated in doubles
BaseVolumeMicro ==
    << 3000000, 3060000, 3121200, 3183624, 3247296, 3312242, 3378487, 3446057,
       3514978, 3585278, 3656983, 3730123, 3804725, 3880820, 3958436, 4037605 >>

\* Math.round(x / y) for x >= 0, y > 0
RoundDiv(x, y) == (2 * x + y) \div (2 * y)

\* TrafficGenerator.calculateTrafficVolume
CalculateTrafficVolume(t, multiplier) ==
    Max(1, RoundDiv(BaseVolumeMicro[t + 1] * multiplier, 1000000))

InitialGenerator ==
    [currentTrafficMultiplier |-> 1, attackInProgress |-> FALSE, attackDuration |-> 0]

\* What Math.random() gives during one generateTraffic call: whether an attack
\* starts (random < attackProbability), floor(random * 10), floor(random * 100),
\* and the paths of the attack requests, repeated in turn.
AttackPatterns == { <<"/admin", "/../../etc/passwd">> }
Draws(durations, volumes) ==
    [start : BOOLEAN, duration : durations, volume : volumes, pattern : AttackPatterns]

\* TrafficGenerator.generateUserRequests, generateBotRequests
GenerateUserRequests(volume) ==
    [i \in 1..RoundDiv(volume * (100 - BotPercent), 100) |-> NewRequest("user", "/")]
GenerateBotRequests(volume) ==
    [i \in 1..RoundDiv(volume * BotPercent, 100) |-> NewRequest("bot", "/")]

\* generateAttackRequests that starts an attack whenever the draw says so,
\* also while one is in progress
GenerateAttackRequestsRestarting(gen, d) ==
    LET g1 == IF d.start
              THEN [gen EXCEPT !.attackInProgress = TRUE,
                               !.attackDuration = d.duration + AttackDurationBase]
              ELSE gen
        volume == d.volume + AttackVolumeBase
        left == g1.attackDuration - 1
    IN  IF g1.attackInProgress
        THEN [requests |-> [i \in 1..volume |->
                              NewRequest("attack", d.pattern[((i - 1) % Len(d.pattern)) + 1])],
              generator |-> [g1 EXCEPT !.attackDuration = left,
                                       !.attackInProgress = left > 0]]
        ELSE [requests |-> <<>>, generator |-> g1]

\* TrafficGenerator.generateAttackRequests: the requests and the generator after
GenerateAttackRequests(gen, d) ==
    LET starts == ~gen.attackInProgress /\ d.start
        g1 == IF starts
              THEN [gen EXCEPT !.attackInProgress = TRUE,
                               !.attackDuration = d.duration + AttackDurationBase]
              ELSE gen
        volume == d.volume + AttackVolumeBase
        left == g1.attackDuration - 1
    IN  IF g1.attackInProgress
        THEN [requests |-> [i \in 1..volume |->
                              NewRequest("attack", d.pattern[((i - 1) % Len(d.pattern)) + 1])],
              generator |-> [g1 EXCEPT !.attackDuration = left,
                                       !.attackInProgress = left > 0]]
        ELSE [requests |-> <<>>, generator |-> g1]

\* TrafficGenerator.generateTraffic
GenerateTraffic(t, gen, d) ==
    LET volume == CalculateTrafficVolume(t, gen.currentTrafficMultiplier)
        attack == GenerateAttackRequests(gen, d)
    IN  [requests |-> GenerateUserRequests(volume) \o GenerateBotRequests(volume)
                      \o attack.requests,
         generator |-> attack.generator]

----------------------------------------------------------------------------
(* Clock *)

\* timer is the due time of the interval this.timer refers to; leaked holds the
\* due times of the intervals that were set, never cleared and are referred
\* to by nothing (setInterval keeps them firing)
InitialClock == [isRunning |-> FALSE, tickCount |-> 0, timer |-> NoTimer, leaked |-> <<>>]

\* the live intervals of the clock: 0 is the one this.timer refers to
LiveTimers(c) == (IF c.timer # NoTimer THEN {0} ELSE {}) \cup DOMAIN c.leaked

\* when the interval h fires next
Due(c, h) == IF h = 0 THEN c.timer ELSE c.leaked[h]

\* setInterval: the interval h has fired and is due again one interval later
Rearm(c, h) ==
    IF h = 0 THEN [c EXCEPT !.timer = @ + TickInterval]
    ELSE [c EXCEPT !.leaked[h] = @ + TickInterval]

\* Clock.start without its first line: a new interval is set whatever the
\* state, the one this.timer referred to stays live
ClockStartUnguarded(c, t) ==
    [c EXCEPT !.isRunning = TRUE, !.timer = t + TickInterval,
              !.leaked = IF c.timer # NoTimer THEN Append(@, c.timer) ELSE @]

\* Clock.start at time t
ClockStart(c, t) ==
    IF c.isRunning THEN c ELSE [c EXCEPT !.isRunning = TRUE, !.timer = t + TickInterval]

\* Clock.stop that also takes the tick count back to 0
ClockStopResetting(c) ==
    IF ~c.isRunning THEN c
    ELSE [c EXCEPT !.isRunning = FALSE, !.timer = NoTimer, !.tickCount = 0]

\* Clock.stop
ClockStop(c) ==
    IF ~c.isRunning THEN c ELSE [c EXCEPT !.isRunning = FALSE, !.timer = NoTimer]

\* Clock.reset
ClockReset(c) == [ClockStop(c) EXCEPT !.tickCount = 0]

----------------------------------------------------------------------------
(* The initial state: GameLoop's constructor *)

\* An object handed out is either a value of its own (a copy) or a reference
\* to the live object, which shows and takes every later change
Copy(v) == [shared |-> FALSE, value |-> v]
Live == [shared |-> TRUE, value |-> <<>>]
Nothing == [shared |-> FALSE, value |-> <<>>]

\* what a holder of c reads, live being the live object now
Read(c, live) == IF c.shared THEN live ELSE c.value

\* getSnapshot returning the live metrics object instead of a copy
GetSnapshotSharingMetrics(t, running, provs, m, svcs, c) ==
    [ tick |-> t, isRunning |-> running, providers |-> Copy(provs),
      providerCosts |-> Copy(c.providers), metrics |-> Live, totalCost |-> Live,
      serviceCount |-> Cardinality(svcs) ]

\* GameState.getSnapshot: tick, isRunning and serviceCount are primitives,
\* providers goes through JSON.parse(JSON.stringify()), metrics (all its
\* fields primitives) through a spread; scenario is always null.  providers
\* and providerCosts are the services and totalCost of the copied provider
\* sections, metrics and totalCost the fields of the copied metrics.
GetSnapshot(t, running, provs, m, svcs, c) ==
    [ tick |-> t, isRunning |-> running, providers |-> Copy(provs),
      providerCosts |-> Copy(c.providers), metrics |-> Copy(m),
      totalCost |-> Copy(c.metrics), serviceCount |-> Cardinality(svcs) ]

\* no snapshot taken yet
NoSnapshot == GetSnapshot(-1, FALSE, InitialProviders, InitialMetrics, {}, InitialCosts)

\* no handler subscribed, no callback added after construction
NoSubscribers == [events |-> <<>>, clock |-> <<>>]

Call(op, arg) == [op |-> op, arg |-> arg]

InitLoop ==
    /\ now = 0
    /\ tick = 0
    /\ isRunning = FALSE
    /\ metrics = InitialMetrics
    /\ costs = InitialCosts
    /\ currentRequests = <<>>
    /\ gsServices = {}
    /\ providers = InitialProviders
    /\ clock = InitialClock
    /\ regServices = <<>>
    /\ instances = EmptyMap
    /\ nextId = 0
    /\ generator = InitialGenerator
    /\ timeouts = <<>>
    /\ eventHistory = <<>>
    /\ tickResults = NoResults
    /\ svcResults = EmptyMap
    /\ inspection = NoInspection
    /\ registryCall = NoRegistryCall
    /\ subscribers = NoSubscribers
    /\ invoked = <<>>
    /\ snapshot = NoSnapshot
    /\ connections = EmptyMap
    /\ calls = 0
    /\ lastCall = Call("new GameLoop", 0)

Init == InitLoop

----------------------------------------------------------------------------
(* GameLoop *)

\* EventBus.emit: eventRecord, with the gameState of its payload
Event(type, t, gameState, requests) ==
    [type |-> type, tick |-> t, gameState |-> gameState, requests |-> requests]

\* the events of a tick with the render notification ahead of the metrics
\* notification
TickEventsRenderFirst(t, over, before, after) ==
    << Event("tick_start", t, Copy(before), Nothing),
       Event("traffic_generated", t, Nothing, Nothing),
       Event("requests_processed", t, Nothing, Live),
       Event("ui_update", t, Copy(after), Nothing),
       Event("metrics_updated", t, Live, Nothing) >>
    \o (IF over THEN <<Event("game_over", t, Nothing, Nothing)>> ELSE <<>>)

\* the events of a tick that announces game over ahead of the render
\* notification
TickEventsGameOverFirst(t, over, before, after) ==
    << Event("tick_start", t, Copy(before), Nothing),
       Event("traffic_generated", t, Nothing, Nothing),
       Event("requests_processed", t, Nothing, Live),
       Event("metrics_updated", t, Live, Nothing) >>
    \o (IF over THEN <<Event("game_over", t, Nothing, Nothing)>> ELSE <<>>)
    \o << Event("ui_update", t, Copy(after), Nothing) >>

\* the events one executed tick emits, in order (main.js 170-202); before and
\* after are the snapshots taken at lines 173 and 196.  The payload of
\* requests_processed holds gameState.currentRequests itself (line 184), the
\* payload of metrics_updated the game state itself (line 190).
TickEvents(t, over, before, after) ==
    << Event("tick_start", t, Copy(before), Nothing),
       Event("traffic_generated", t, Nothing, Nothing),
       Event("requests_processed", t, Nothing, Live),
       Event("metrics_updated", t, Live, Nothing),
       Event("ui_update", t, Copy(after), Nothing) >>
    \o (IF over THEN <<Event("game_over", t, Nothing, Nothing)>> ELSE <<>>)

\* does a write to payload.gameState.metrics land in the live metrics
ReachesLiveMetrics(gameState) ==
    \/ gameState.shared
    \/ (gameState.value # <<>> /\ gameState.value.metrics.shared)

\* what an added handler that writes to its payload writes:
\* payload.gameState.metrics.gameOver = true and payload.requests.length = 0
HandlerWrite(m) == [m EXCEPT !.gameOver = TRUE]

\* is there an added handler for the type that writes to its payload
Writers(type, subs) == \E k \in DOMAIN subs : subs[k].type = type /\ subs[k].mutates

\* have the handlers of the first upto events of the tick written to the
\* live metrics
WroteMetrics(events, upto, subs) ==
    \E i \in 1..upto : ReachesLiveMetrics(events[i].gameState) /\ Writers(events[i].type, subs)

\* have the handlers of the events of the tick written to the live batch
WroteRequests(events, subs) ==
    \E i \in DOMAIN events : events[i].requests.shared /\ Writers(events[i].type, subs)

\* the handlers subscribed at construction: the generator, the registry and
\* the game loop (serviceRegistry.js 28, generator.js 31, main.js 138)
BuiltInHandlers(type) ==
    CASE type = "traffic_generated"  -> <<"generateTraffic">>
      [] type = "requests_processed" -> <<"processRequests">>
      [] type = "game_over"          -> <<"pause">>
      [] OTHER                       -> <<>>

\* one call of a handler: a built-in one by its name, an added one ("added")
\* by its position among the added ones
Invocation(on, handler, index, threw) ==
    [on |-> on, handler |-> handler, index |-> index, threw |-> threw]

\* the invocations of the handlers at the positions ks of subs for an event
\* of the given type, in subscription order
RECURSIVE UserInvocations(_, _, _)
UserInvocations(type, subs, k) ==
    IF k > Len(subs) THEN <<>>
    ELSE (IF subs[k].type = type THEN <<Invocation(type, "added", k, subs[k].throws)>> ELSE <<>>)
         \o UserInvocations(type, subs, k + 1)

\* forEach without the try/catch: the first handler that throws ends it
RECURSIVE UntilThrow(_)
UntilThrow(invs) ==
    IF invs = <<>> THEN <<>>
    ELSE IF Head(invs).threw THEN <<Head(invs)>>
         ELSE <<Head(invs)>> \o UntilThrow(Tail(invs))

\* emit whose loop over the handlers is ended by a handler that throws
EmitUnguarded(type, subs) ==
    UntilThrow([k \in 1..Len(BuiltInHandlers(type)) |->
                  Invocation(type, BuiltInHandlers(type)[k], 0, FALSE)]
               \o UserInvocations(type, subs, 1))

\* EventBus.emit, lines 68-76: every handler of the type is invoked, in
\* subscription order; a handler that throws is caught
Emit(type, subs) ==
    [k \in 1..Len(BuiltInHandlers(type)) |-> Invocation(type, BuiltInHandlers(type)[k], 0, FALSE)]
    \o UserInvocations(type, subs, 1)

\* the handler invocations of the events of one tick
RECURSIVE EmitAll(_, _)
EmitAll(events, subs) ==
    IF events = <<>> THEN <<>>
    ELSE Emit(Head(events).type, subs) \o EmitAll(Tail(events), subs)

\* Clock.start, lines 144-150: the callbacks added after the game loop's own
ClockCallbacks(callbacks) ==
    [k \in 1..Len(callbacks) |-> Invocation("clock", "added", k, callbacks[k].throws)]

\* the random draws of a tick of the game loop
LoopDraws == Draws({0}, {0})

\* executeTick without its first test
TickNeverRefused(m) == FALSE

\* executeTick's first test (main.js 163): the tick is refused
TickRefused(m) == m.gameOver

\* GameLoop.executeTick(n), clk being the clock as the caller left it;
\* fromClock: called as the clock's callback, the other callbacks follow
ExecuteTick(n, clk, fromClock) ==
    LET around(invs) == IF fromClock
                        THEN <<Invocation("clock", "executeTick", 0, FALSE)>> \o invs
                             \o ClockCallbacks(subscribers.clock)
                        ELSE invs
    IN
    IF TickRefused(metrics)
    THEN /\ isRunning' = FALSE
         /\ clock' = ClockStop(clk)
         /\ invoked' = around(<<>>)
         /\ UNCHANGED <<tick, metrics, costs, currentRequests, eventHistory, subscribers,
                        generator, instances, tickResults, svcResults, inspection,
                        registryCall, snapshot>>
    ELSE /\ Len(eventHistory) + EventsPerTick <= MaxEvents
         /\ \E d \in LoopDraws :
              LET traffic == GenerateTraffic(n, generator, d)
              IN  \E out \in RegistryProcessRequests(regServices, instances, traffic.requests, now) :
                    LET m1 == IF out.updated THEN UpdateMetrics(metrics, out) ELSE metrics
                        c1 == IF out.updated
                              THEN UpdateCosts(providers, gsServices, out.instances)
                              ELSE costs
                        before == GetSnapshot(n, isRunning, providers, metrics,
                                              gsServices, costs)
                        \* the payloads of the stages, for what each of them shares
                        stages == TickEvents(n, FALSE, before, before)
                        render == CHOOSE i \in DOMAIN stages : stages[i].type = "ui_update"
                        \* the metrics when getSnapshot() of line 196 is called, and
                        \* when the test of line 200 is made
                        m2 == IF WroteMetrics(stages, render - 1, subscribers.events)
                              THEN HandlerWrite(m1) ELSE m1
                        m3 == IF WroteMetrics(stages, Len(stages), subscribers.events)
                              THEN HandlerWrite(m1) ELSE m1
                        events == TickEvents(n, m3.gameOver, before,
                                             GetSnapshot(n, isRunning, providers, m2,
                                                         gsServices, c1))
                    IN  /\ tick' = n
                        /\ generator' = traffic.generator
                        /\ currentRequests' = IF WroteRequests(stages, subscribers.events)
                                              THEN <<>> ELSE traffic.requests
                        /\ instances' = out.instances
                        /\ metrics' = m3
                        /\ costs' = c1
                        /\ eventHistory' = eventHistory \o events
                        /\ invoked' = around(EmitAll(events, subscribers.events))
                        /\ isRunning' = IF m3.gameOver THEN FALSE ELSE isRunning
                        /\ clock' = IF m3.gameOver THEN ClockStop(clk) ELSE clk
                        /\ tickResults' = [services |-> Len(regServices),
                                           offered |-> Len(traffic.requests),
                                           processed |-> out.processed,
                                           dropped |-> out.dropped,
                                           blocked |-> out.blocked]
                        /\ svcResults' = out.results
                        /\ UNCHANGED <<inspection, registryCall, subscribers, snapshot>>

\* the interval callback of Clock.start: tickCount++, then the callbacks
ClockFire ==
    /\ clock.tickCount < MaxTickNumber
    /\ \E h \in LiveTimers(clock) :
          /\ Due(clock, h) <= now
          /\ ExecuteTick(clock.tickCount + 1,
                         [Rearm(clock, h) EXCEPT !.tickCount = @ + 1], TRUE)
    /\ lastCall' = Call("clock tick", clock.tickCount + 1)
    /\ UNCHANGED <<now, timeouts, gsServices, providers, regServices, nextId, connections,
                   calls>>

\* gameLoop.executeTick(n) called directly
ExecuteTickDirect ==
    \E n \in 1..MaxTickNumber :
        /\ calls < MaxCalls
        /\ calls' = calls + 1
        /\ lastCall' = Call("executeTick", n)
        /\ ExecuteTick(n, clock, FALSE)
        /\ UNCHANGED <<now, timeouts, gsServices, providers, regServices, nextId,
                       connections>>

\* GameLoop.start
Start ==
    /\ calls < MaxCalls
    /\ calls' = calls + 1
    /\ lastCall' = Call("start", 0)
    /\ IF metrics.gameOver
       THEN UNCHANGED <<isRunning, clock>>
       ELSE /\ isRunning' = TRUE
            /\ clock' = ClockStart(clock, now)
    /\ UNCHANGED <<now, timeouts, tick, metrics, costs, currentRequests, eventHistory,
                   subscribers, topoVars, generator, obsVars>>

\* GameLoop.pause
Pause ==
    /\ calls < MaxCalls
    /\ calls' = calls + 1
    /\ lastCall' = Call("pause", 0)
    /\ isRunning' = FALSE
    /\ clock' = ClockStop(clock)
    /\ UNCHANGED <<now, timeouts, tick, metrics, costs, currentRequests, eventHistory,
                   subscribers, topoVars, generator, obsVars>>

\* ServiceRegistry.reset
RegistryReset(insts) == [id \in DOMAIN insts |-> ResetService(insts[id])]

\* TrafficGenerator.reset
GeneratorReset(gen) == InitialGenerator

\* GameLoop.reset: clock, game state, registry, generator, event history
Reset ==
    /\ calls < MaxCalls
    /\ calls' = calls + 1
    /\ lastCall' = Call("reset", 0)
    /\ clock' = ClockReset(clock)
    /\ tick' = 0
    /\ isRunning' = FALSE
    /\ providers' = InitialProviders
    /\ metrics' = InitialMetrics
    /\ costs' = InitialCosts
    /\ currentRequests' = <<>>
    /\ gsServices' = {}
    /\ instances' = RegistryReset(instances)
    /\ generator' = GeneratorReset(generator)
    /\ eventHistory' = <<>>
    /\ connections' = EmptyMap
    /\ UNCHANGED <<now, timeouts, regServices, nextId, subscribers, obsVars>>

\* the configurations of the instances the game loop's model deploys: valid
\* ones, and one for each rule of validate() the model's instances can break
LoopConfigs ==
    { Config("compute", 2), Config("waf", 0), Config("compute", -1),
      [Config("compute", 2) EXCEPT !.provider = "oracle"],
      [Config("compute", 2) EXCEPT !.baseCost = -500],
      [Config("compute", 2) EXCEPT !.spotInstance = TRUE, !.reservedInstance = TRUE] }

\* ServiceRegistry.deployService(new <Variant>(cfg))
DeployService(cfg) ==
    LET s == NewService(nextId + 1, cfg)
    IN  /\ nextId < MaxDeploys
        /\ calls < MaxCalls
        /\ calls' = calls + 1
        /\ lastCall' = Call("deployService", s.id)
        /\ registryCall' = [op |-> "deployService", given |-> s, returned |-> Validate(s) = {}]
        /\ IF Validate(s) # {}
           THEN UNCHANGED topoVars
           ELSE /\ nextId' = nextId + 1
                /\ regServices' = Append(regServices, s.id)
                /\ instances' = instances @@ (s.id :> s)
                /\ gsServices' = gsServices \cup {s.id}
                /\ providers' = [providers EXCEPT ![s.provider] = Append(@, s.id)]
                /\ UNCHANGED connections
        /\ UNCHANGED <<loopVars, timeVars, generator, tickResults, svcResults, inspection,
                   invoked, snapshot>>

Deploy == \E cfg \in LoopConfigs : DeployService(cfg)

\* ServiceRegistry.deployService(service) with an instance the registry holds:
\* Map.set on a key that exists, and GameState.addService once more
RedeployService(id) ==
    LET s == instances[id]
    IN  /\ calls < MaxCalls
        /\ calls' = calls + 1
        /\ lastCall' = Call("deployService", id)
        /\ registryCall' = [op |-> "deployService", given |-> s, returned |-> Validate(s) = {}]
        /\ IF Validate(s) # {}
           THEN UNCHANGED <<gsServices, providers>>
           ELSE /\ gsServices' = gsServices \cup {id}
                /\ providers' = [providers EXCEPT ![s.provider] = Append(@, id)]
        /\ UNCHANGED <<regServices, instances, nextId, connections, loopVars, timeVars,
                       generator, tickResults, svcResults, inspection, invoked, snapshot>>

Redeploy == \E id \in Range(regServices) : RedeployService(id)

\* Array.prototype.indexOf + splice: the first occurrence is taken out
RemoveFirst(seq, x) ==
    IF x \notin Range(seq) THEN seq
    ELSE LET i == CHOOSE j \in DOMAIN seq : seq[j] = x /\ \A k \in 1..(j - 1) : seq[k] # x
         IN  SubSeq(seq, 1, i - 1) \o SubSeq(seq, i + 1, Len(seq))

\* Map.prototype.delete
MapDelete(map, key) == [k \in DOMAIN map \ {key} |-> map[k]]

\* removeService that takes the id out of the provider list without looking
\* whether the service is known
RemoveServiceUnguarded(id) ==
    /\ calls < MaxCalls
    /\ calls' = calls + 1
    /\ lastCall' = Call("removeService", id)
    /\ registryCall' = [op |-> "removeService", given |-> id, returned |-> TRUE]
    /\ regServices' = SelectSeq(regServices, LAMBDA x : x # id)
    /\ instances' = MapDelete(instances, id)
    /\ providers' = [p \in DOMAIN providers |->
                       IF providers[p] = <<>> THEN <<>> ELSE Tail(providers[p])]
    /\ gsServices' = gsServices \ {id}
    /\ connections' = MapDelete(connections, id)
    /\ UNCHANGED <<nextId, loopVars, timeVars, generator, tickResults, svcResults, inspection,
                   invoked, snapshot>>

\* ServiceRegistry.removeService(id) with GameState.removeService(id)
RemoveService(id) ==
    /\ calls < MaxCalls
    /\ calls' = calls + 1
    /\ lastCall' = Call("removeService", id)
    /\ registryCall' = [op |-> "removeService", given |-> id,
                        returned |-> id \in Range(regServices)]
    /\ IF id \in Range(regServices)
       THEN /\ regServices' = SelectSeq(regServices, LAMBDA x : x # id)
            /\ instances' = MapDelete(instances, id)
            /\ IF id \in gsServices
               THEN /\ providers' = [providers EXCEPT
                                       ![instances[id].provider] = RemoveFirst(@, id)]
                    /\ gsServices' = gsServices \ {id}
                    /\ connections' = MapDelete(connections, id)
               ELSE UNCHANGED <<providers, gsServices, connections>>
       ELSE UNCHANGED <<regServices, instances, providers, gsServices, connections>>
    /\ UNCHANGED <<nextId, loopVars, timeVars, generator, tickResults, svcResults, inspection,
                   invoked, snapshot>>

Remove == \E id \in 1..MaxDeploys : RemoveService(id)

\* GameState.connectServices(serviceId1, serviceId2)
ConnectServices(serviceId1, serviceId2) ==
    LET c0 == IF serviceId1 \in DOMAIN connections THEN connections
              ELSE connections @@ (serviceId1 :> <<>>)
        c1 == IF serviceId2 \in DOMAIN c0 THEN c0 ELSE c0 @@ (serviceId2 :> <<>>)
        c2 == [c1 EXCEPT ![serviceId1] = Append(@, serviceId2)]
    IN  /\ calls < MaxCalls
        /\ calls' = calls + 1
        /\ lastCall' = Call("connectServices", serviceId1)
        /\ connections' = [c2 EXCEPT ![serviceId2] = Append(@, serviceId1)]
        /\ UNCHANGED <<gsServices, providers, regServices, instances, nextId,
                       loopVars, timeVars, generator, obsVars>>

Connect == \E a, b \in 1..MaxDeploys : ConnectServices(a, b)

\* the multipliers and durations (seconds) triggerSpike is called with
SpikeMultipliers == {5}
SpikeDurations == {1}

\* triggerTrafficSpike without its setTimeout
TriggerTrafficSpikeNoTimeout(multiplier, duration) ==
    /\ Len(timeouts) < MaxSpikes
    /\ calls < MaxCalls
    /\ calls' = calls + 1
    /\ lastCall' = Call("triggerTrafficSpike", multiplier)
    /\ generator' = [generator EXCEPT !.currentTrafficMultiplier = multiplier]
    /\ UNCHANGED <<now, clock, timeouts, loopVars, topoVars, obsVars>>

\* TrafficGenerator.triggerTrafficSpike(multiplier, duration)
TriggerTrafficSpike(multiplier, duration) ==
    /\ Len(timeouts) < MaxSpikes
    /\ calls < MaxCalls
    /\ calls' = calls + 1
    /\ lastCall' = Call("triggerTrafficSpike", multiplier)
    /\ generator' = [generator EXCEPT !.currentTrafficMultiplier = multiplier]
    /\ timeouts' = Append(timeouts, [kind |-> "spike", due |-> now + duration])
    /\ UNCHANGED <<now, clock, loopVars, topoVars, obsVars>>

TriggerSpike == \E m \in SpikeMultipliers, d \in SpikeDurations : TriggerTrafficSpike(m, d)

\* the setTimeout callback of triggerTrafficSpike
SpikeExpire ==
    \E i \in DOMAIN timeouts :
        /\ timeouts[i].kind = "spike"
        /\ timeouts[i].due <= now
        /\ generator' = [generator EXCEPT !.currentTrafficMultiplier = 1]
        /\ timeouts' = SubSeq(timeouts, 1, i - 1) \o SubSeq(timeouts, i + 1, Len(timeouts))
        /\ lastCall' = Call("spike timeout", 0)
        /\ UNCHANGED <<now, clock, loopVars, topoVars, obsVars, calls>>

\* a second passes; a timer that is due fires before time moves on
Elapse ==
    /\ now < MaxTime
    /\ \A h \in LiveTimers(clock) : Due(clock, h) > now
    /\ \A i \in DOMAIN timeouts : timeouts[i].due > now
    /\ now' = now + 1
    /\ lastCall' = Call("time passes", now + 1)
    /\ UNCHANGED <<clock, timeouts, loopVars, topoVars, generator, obsVars, calls>>

Next ==
    \/ Start
    \/ Pause
    \/ Reset
    \/ Deploy
    \/ Redeploy
    \/ Remove
    \/ Connect
    \/ TriggerSpike
    \/ SpikeExpire
    \/ Elapse
    \/ ClockFire
    \/ ExecuteTickDirect

Spec == Init /\ [][Next]_vars

----------------------------------------------------------------------------
(* GameState.updateMetrics on its own: the totals of a tick are any numbers *)

MetricsProcessed == {0, 180}
MetricsDropped == {0, 20, 200}
MetricsBlocked == {0, 10}

\* serviceRegistry.js 99-104: gameState.updateMetrics({processed, dropped, blocked})
UpdateMetricsCall ==
    \E p \in MetricsProcessed, d \in MetricsDropped, b \in MetricsBlocked :
        /\ calls < MaxCalls
        /\ calls' = calls + 1
        /\ lastCall' = Call("updateMetrics", d)
        /\ metrics' = UpdateMetrics(metrics, [processed |-> p, dropped |-> d, blocked |-> b])
        /\ costs' = UpdateCosts(providers, gsServices, instances)
        /\ tickResults' = [services |-> 0, offered |-> p + d + b, processed |-> p,
                           dropped |-> d, blocked |-> b]
        /\ UNCHANGED <<now, tick, isRunning, currentRequests, topoVars, clock, generator,
                       timeouts, eventHistory, subscribers, svcResults, inspection,
                       registryCall, invoked, snapshot>>

NextMetrics == UpdateMetricsCall

SpecMetrics == InitLoop /\ [][NextMetrics]_vars

----------------------------------------------------------------------------
(* One service instance on its own: batches of any size are offered to it *)

\* the configurations an instance is constructed with
ServiceConfigs ==
    { Config(k, 2) : k \in Kinds }
    \cup { Config("compute", 500),
           [Config("compute", 2) EXCEPT !.instanceType = "m5.large"],
           [Config("compute", 2) EXCEPT !.spotInstance = TRUE],
           [Config("database", 2) EXCEPT !.multiAZ = TRUE] }

\* the instance as constructed, and a burstable one that has earned its
\* maximum of CPU credits (idle ticks earn 0.2 each up to 144)
ServiceStates ==
    { NewService(1, cfg) : cfg \in ServiceConfigs }
    \cup { [NewService(1, cfg) EXCEPT
              !.cpuCredits = CreditMaximum * CreditUnit * NewService(1, cfg).capacity]
           : cfg \in { c \in ServiceConfigs : c.kind = "compute"
                                               /\ IsBurstableType(c.instanceType) } }

InitServiceIn(states) ==
    /\ now = 0
    /\ tick = 0
    /\ isRunning = FALSE
    /\ metrics = InitialMetrics
    /\ costs = InitialCosts
    /\ currentRequests = <<>>
    /\ gsServices = {1}
    /\ providers = [InitialProviders EXCEPT !["aws"] = <<1>>]
    /\ clock = InitialClock
    /\ regServices = <<1>>
    /\ \E s \in states : instances = (1 :> s)
    /\ nextId = 1
    /\ generator = InitialGenerator
    /\ timeouts = <<>>
    /\ eventHistory = <<>>
    /\ tickResults = NoResults
    /\ svcResults = EmptyMap
    /\ inspection = NoInspection
    /\ registryCall = NoRegistryCall
    /\ subscribers = NoSubscribers
    /\ invoked = <<>>
    /\ snapshot = NoSnapshot
    /\ connections = EmptyMap
    /\ calls = 0
    /\ lastCall = Call("new Service", 1)

\* AWSDatabase.handleFailover: failoverDuration = 60000 ms, in seconds
FailoverDuration == 60

InitService == InitServiceIn(ServiceStates)

\* the sizes of the batches offered
OfferSizes == {1, 2, 3, 500, 700}

\* service.processRequests(requests) with a batch of n user requests
Offer ==
    \E n \in OfferSizes :
        \E o \in ServiceProcessRequests(instances[1], [i \in 1..n |-> NewRequest("user", "/")],
                                        now) :
            /\ calls < MaxCalls
            /\ calls' = calls + 1
            /\ lastCall' = Call("processRequests", n)
            /\ instances' = (1 :> o.svc)
            /\ svcResults' = (1 :> [offered |-> n, processed |-> o.processed,
                                    dropped |-> o.dropped, blocked |-> o.blocked])
            /\ timeouts' = IF o.failover
                           THEN Append(timeouts, [kind |-> "failover",
                                                  due |-> now + FailoverDuration])
                           ELSE timeouts
            /\ UNCHANGED <<loopVars, now, clock, gsServices, providers, regServices, nextId,
                           connections, generator, tickResults, inspection, registryCall,
                           invoked, snapshot>>

NextService == Offer

SpecService == InitService /\ [][NextService]_vars

----------------------------------------------------------------------------
(* One AWSCompute with auto-scaling on its own, offered batches over time *)

MaxScalingTime == 4

\* config.autoScaling of the instances: a cooldown of 2 seconds, at most 3
\* instances, 1 or 2 to begin with; and one with minInstances 2 and no
\* desiredCapacity given, which begins with the default of 1
ScalingConfigs ==
    { [Config("compute", 2) EXCEPT
          !.instanceType = "m5.large",
          !.autoScaling = [enabled |-> TRUE, minInstances |-> m, maxInstances |-> 3,
                           desiredCapacity |-> d, cooldownPeriod |-> 2]]
      : m \in {1}, d \in {1, 2} }
    \cup { [Config("compute", 2) EXCEPT
               !.instanceType = "m5.large",
               !.autoScaling = [enabled |-> TRUE, minInstances |-> 2, maxInstances |-> 3,
                                desiredCapacity |-> 0, cooldownPeriod |-> 2]] }

InitScaling == InitServiceIn({ NewService(1, cfg) : cfg \in ScalingConfigs })

\* time passes between two batches
ElapseScaling ==
    /\ now < MaxScalingTime
    /\ now' = now + 1
    /\ lastCall' = Call("time passes", now + 1)
    /\ UNCHANGED <<clock, timeouts, loopVars, topoVars, generator, obsVars, calls>>

NextScaling == Offer \/ ElapseScaling

SpecScaling == InitScaling /\ [][NextScaling]_vars

----------------------------------------------------------------------------
(* AWSQueue: one queue on its own, its message store and its FIFO state.   *)
(* Times are in seconds (the code's milliseconds are whole seconds here);  *)
(* a message id, a receipt handle and a generated deduplication id are     *)
(* fresh values; the message objects shared by the maps messages,          *)
(* inFlightMessages and deadLetterMessages are kept once, by message id.   *)

MaxQueueCalls == 4

\* constructor: messageRetentionPeriod, visibilityTimeout, deadLetterQueue
\* .maxReceiveCount, the FIFO capacity, maxBatchSize and the size of
\* deduplicationIds above which cleanupExpiredData clears it
MessageRetentionPeriod == 345600
VisibilityTimeout == 30
DefaultMaxReceiveCount == 3
FifoCapacity == 300
MaxBatchSize == 10
DeduplicationClearSize == 1000

\* this.deduplicationWindow = 5 * 60 * 1000 ms
DeduplicationWindow == 300

\* config of a queue: queueType and deadLetterQueue (0: maxReceiveCount not given)
QueueConfig(queueType, enabled, maxReceiveCount) ==
    [queueType |-> queueType,
     deadLetterQueue |-> [enabled |-> enabled, maxReceiveCount |-> maxReceiveCount]]

\* AWSQueue constructor
NewQueue(id, qc) ==
    [NewService(id, Config("queue", 0)) EXCEPT
        !.capacity = IF qc.queueType = "fifo" THEN FifoCapacity ELSE @]
    @@ [ queueType |-> qc.queueType,
         messageRetentionPeriod |-> MessageRetentionPeriod,
         visibilityTimeout |-> VisibilityTimeout,
         deadLetterQueue |->
             [enabled |-> qc.deadLetterQueue.enabled,
              maxReceiveCount |-> IF qc.deadLetterQueue.maxReceiveCount = 0
                                  THEN DefaultMaxReceiveCount
                                  ELSE qc.deadLetterQueue.maxReceiveCount],
         objects |-> EmptyMap,
         messages |-> <<>>,
         inFlightMessages |-> <<>>,
         deadLetterMessages |-> <<>>,
         messageGroups |-> {},
         groupSequenceNumbers |-> EmptyMap,
         deduplicationIds |-> {},
         queueMetrics |-> [approximateNumberOfMessages |-> 0,
                           approximateNumberOfMessagesNotVisible |-> 0,
                           messagesReceived |-> 0, messagesSent |-> 0,
                           messagesDeleted |-> 0],
         nextMessageId |-> 1,
         nextReceipt |-> 1 ]

\* a queue request; 0 stands for a field that is not given
QueueRequest(operation, group, dedup, maxMessages, handle, timeout) ==
    [queueOperation |-> operation, messageGroupId |-> group, deduplicationId |-> dedup,
     maxNumberOfMessages |-> maxMessages, receiptHandle |-> handle,
     visibilityTimeout |-> timeout]

\* the value an operation returns
QueueResult(operation, success, error, messageId, messages) ==
    [operation |-> operation, success |-> success, error |-> error,
     messageId |-> messageId, messages |-> messages]

\* generateDeduplicationId without contentBasedDeduplication: a fresh id
GenerateDeduplicationId(k) == 0 - k

\* the message objects still held by one of the three maps
Referenced(q) ==
    [q EXCEPT !.objects =
        [id \in Range(q.messages) \cup Range(q.inFlightMessages)
                \cup Range(q.deadLetterMessages) |-> q.objects[id]]]

\* AWSQueue.sendMessage
SendMessage(q, req, t) ==
    LET fifo == q.queueType = "fifo"
        g == req.messageGroupId
        id == q.nextMessageId
        dedup == IF req.deduplicationId # 0 THEN req.deduplicationId
                 ELSE GenerateDeduplicationId(2 * id)
    IN  IF fifo /\ g = 0
        THEN [q |-> q,
              result |-> QueueResult("sendMessage", FALSE,
                                     "MessageGroupId required for FIFO queue", 0, <<>>)]
        ELSE IF fifo /\ dedup \in q.deduplicationIds
        THEN [q |-> q,
              result |-> QueueResult("sendMessage", FALSE, "Duplicate message", 0, <<>>)]
        ELSE LET sequenceNumber == IF g \in DOMAIN q.groupSequenceNumbers
                                   THEN q.groupSequenceNumbers[g] ELSE 1
                 q1 == IF fifo
                       THEN [q EXCEPT
                                !.deduplicationIds = @ \cup {dedup},
                                !.messageGroups = @ \cup {g},
                                !.groupSequenceNumbers =
                                    (g :> sequenceNumber + 1) @@ q.groupSequenceNumbers]
                       ELSE q
                 message ==
                     [messageId |-> id,
                      sentTimestamp |-> DateNow(t),
                      approximateReceiveCount |-> 0,
                      approximateFirstReceiveTimestamp |-> 0,
                      receiptHandle |-> 0,
                      visibilityTimeout |-> q.visibilityTimeout,
                      visibilityStartTime |-> 0,
                      messageGroupId |-> IF fifo THEN g ELSE 0,
                      messageDeduplicationId |->
                          IF ~fifo THEN 0
                          ELSE IF req.deduplicationId # 0 THEN req.deduplicationId
                          ELSE GenerateDeduplicationId(2 * id + 1),
                      sequenceNumber |-> IF fifo THEN q1.groupSequenceNumbers[g] - 1 ELSE 0]
             IN  [q |-> [q1 EXCEPT !.objects = (id :> message) @@ q1.objects,
                                   !.messages = Append(@, id),
                                   !.queueMetrics.messagesSent = @ + 1,
                                   !.nextMessageId = @ + 1],
                  result |-> QueueResult("sendMessage", TRUE, "", id, <<>>)]

\* AWSQueue.isMessageVisible
IsMessageVisible(message, t) ==
    IF message.visibilityStartTime = 0 THEN TRUE
    ELSE DateNow(t) > message.visibilityStartTime + message.visibilityTimeout

\* the comparison of the sort in receiveMessage: by group, then by sequence number
SortsBefore(a, b) ==
    \/ a.messageGroupId < b.messageGroupId
    \/ a.messageGroupId = b.messageGroupId /\ a.sequenceNumber < b.sequenceNumber

RECURSIVE InsertSorted(_, _, _)
InsertSorted(list, id, objects) ==
    IF list = <<>> THEN <<id>>
    ELSE IF SortsBefore(objects[id], objects[Head(list)]) THEN <<id>> \o list
    ELSE <<Head(list)>> \o InsertSorted(Tail(list), id, objects)

\* availableMessages.sort(...): a stable sort
RECURSIVE SortAvailable(_, _)
SortAvailable(list, objects) ==
    IF list = <<>> THEN <<>>
    ELSE InsertSorted(SortAvailable(SubSeq(list, 1, Len(list) - 1), objects),
                      list[Len(list)], objects)

\* availableMessages of receiveMessage: filter, filter, slice and, FIFO, sort
AvailableMessages(q, maxMessages, t) ==
    LET available(id) == /\ id \notin Range(q.inFlightMessages)
                         /\ IsMessageVisible(q.objects[id], t)
        all == SelectSeq(q.messages, available)
        cut == SubSeq(all, 1, Min(maxMessages, Len(all)))
    IN  IF q.queueType = "fifo" THEN SortAvailable(cut, q.objects) ELSE cut

\* AWSQueue.receiveMessage
ReceiveMessage(q, req, t) ==
    LET maxMessages == Min(IF req.maxNumberOfMessages = 0 THEN 1
                           ELSE req.maxNumberOfMessages, MaxBatchSize)
        received == AvailableMessages(q, maxMessages, t)
        position(id) == CHOOSE i \in DOMAIN received : received[i] = id
    IN  [q |-> [q EXCEPT
                   !.objects =
                       [id \in DOMAIN q.objects |->
                           IF id \in Range(received)
                           THEN [q.objects[id] EXCEPT
                                    !.receiptHandle = q.nextReceipt + position(id) - 1,
                                    !.approximateReceiveCount = @ + 1,
                                    !.approximateFirstReceiveTimestamp =
                                        IF @ = 0 THEN DateNow(t) ELSE @]
                           ELSE q.objects[id]],
                   !.inFlightMessages = @ \o received,
                   !.queueMetrics.messagesReceived = @ + Len(received),
                   !.nextReceipt = @ + Len(received)],
         result |-> QueueResult("receiveMessage", TRUE, "", 0, received)]

\* the in-flight message with the receipt handle, as a set of at most one id
ByReceiptHandle(q, handle) ==
    { id \in Range(q.inFlightMessages) : q.objects[id].receiptHandle = handle }

\* AWSQueue.deleteMessage
DeleteMessage(q, req) ==
    IF req.receiptHandle = 0
    THEN [q |-> q,
          result |-> QueueResult("deleteMessage", FALSE, "ReceiptHandle required", 0, <<>>)]
    ELSE IF ByReceiptHandle(q, req.receiptHandle) = {}
    THEN [q |-> q,
          result |-> QueueResult("deleteMessage", FALSE, "Invalid ReceiptHandle", 0, <<>>)]
    ELSE LET id == CHOOSE m \in ByReceiptHandle(q, req.receiptHandle) : TRUE
         IN  [q |-> Referenced([q EXCEPT
                                   !.messages = RemoveFirst(@, id),
                                   !.inFlightMessages = RemoveFirst(@, id),
                                   !.queueMetrics.messagesDeleted = @ + 1]),
              result |-> QueueResult("deleteMessage", TRUE, "", 0, <<>>)]

\* AWSQueue.changeMessageVisibility (the request gives a visibilityTimeout)
ChangeMessageVisibility(q, req, t) ==
    IF req.receiptHandle = 0
    THEN [q |-> q,
          result |-> QueueResult("changeMessageVisibility", FALSE,
                                 "ReceiptHandle and VisibilityTimeout required", 0, <<>>)]
    ELSE IF ByReceiptHandle(q, req.receiptHandle) = {}
    THEN [q |-> q,
          result |-> QueueResult("changeMessageVisibility", FALSE,
                                 "Invalid ReceiptHandle", 0, <<>>)]
    ELSE LET id == CHOOSE m \in ByReceiptHandle(q, req.receiptHandle) : TRUE
         IN  [q |-> [q EXCEPT !.objects[id].visibilityTimeout = req.visibilityTimeout,
                              !.objects[id].visibilityStartTime = DateNow(t)],
              result |-> QueueResult("changeMessageVisibility", TRUE, "", 0, <<>>)]

\* AWSQueue.purgeQueue
PurgeQueue(q) ==
    LET q1 == [q EXCEPT !.messages = <<>>, !.inFlightMessages = <<>>]
        q2 == IF q.queueType = "fifo"
              THEN [q1 EXCEPT !.messageGroups = {}, !.groupSequenceNumbers = EmptyMap]
              ELSE q1
    IN  [q |-> Referenced(q2), result |-> QueueResult("purgeQueue", TRUE, "", 0, <<>>)]

\* AWSQueue.processQueueOperation
ProcessQueueOperation(q, req, t) ==
    CASE req.queueOperation = "sendMessage"             -> SendMessage(q, req, t)
      [] req.queueOperation = "receiveMessage"          -> ReceiveMessage(q, req, t)
      [] req.queueOperation = "deleteMessage"           -> DeleteMessage(q, req)
      [] req.queueOperation = "changeMessageVisibility" -> ChangeMessageVisibility(q, req, t)
      [] req.queueOperation = "purgeQueue"              -> PurgeQueue(q)

\* AWSQueue.updateQueueMetrics
UpdateQueueMetrics(q) ==
    [q EXCEPT !.queueMetrics.approximateNumberOfMessages = Len(q.messages),
              !.queueMetrics.approximateNumberOfMessagesNotVisible = Len(q.inFlightMessages)]

\* AWSQueue.cleanupExpiredData
CleanupExpiredData(q, t) ==
    LET kept(id) == ~(DateNow(t) - q.objects[id].sentTimestamp > q.messageRetentionPeriod)
        q1 == [q EXCEPT !.messages = SelectSeq(@, kept)]
        q2 == IF q.queueType = "fifo"
                 /\ Cardinality(q.deduplicationIds) > DeduplicationClearSize
              THEN [q1 EXCEPT !.deduplicationIds = {}]
              ELSE q1
        stays(id) == ~(q.objects[id].approximateReceiveCount
                           >= q.deadLetterQueue.maxReceiveCount)
        moved == { id \in Range(q2.inFlightMessages) : ~stays(id) }
        ordered == SelectSeq(q2.inFlightMessages, LAMBDA id : id \in moved)
        added == SelectSeq(ordered, LAMBDA id : id \notin Range(q2.deadLetterMessages))
    IN  IF q.deadLetterQueue.enabled
        THEN Referenced([q2 EXCEPT
                            !.deadLetterMessages = @ \o added,
                            !.inFlightMessages = SelectSeq(@, stays),
                            !.messages = SelectSeq(@, LAMBDA id : id \notin moved)])
        ELSE Referenced(q2)

\* the value processRequests leaves when it drops the request
NoQueueResult == QueueResult("", FALSE, "", 0, <<>>)

\* AWSQueue.processRequests with a batch of one queue request: every result
QueueProcessRequests(q, req, t) ==
    { LET r == IF o.dropped = 1 THEN [q |-> o.svc, result |-> NoQueueResult]
               ELSE ProcessQueueOperation(o.svc, req, t)
      IN  [q |-> CleanupExpiredData(UpdateQueueMetrics(r.q), t), result |-> r.result]
      : o \in PlainProcessRequests(q, <<req>>) }

\* the queues: FIFO without and with a dead-letter queue of the default
\* maxReceiveCount, standard with one that takes a message at its first receive
QueueConfigs ==
    { QueueConfig("fifo", FALSE, 0), QueueConfig("fifo", TRUE, 0),
      QueueConfig("standard", TRUE, 1) }

\* what the callers of the queue have seen: the last request, whether it
\* went through processRequests, its result, and the sends accepted so far
NoQueueCalls ==
    [request |-> QueueRequest("", 0, 0, 0, 0, 0), viaProcessRequests |-> FALSE,
     result |-> NoQueueResult, accepted |-> <<>>]

InitQueue ==
    /\ InitServiceIn({ NewQueue(1, qc) : qc \in QueueConfigs })

\* the record of an accepted send
AcceptedSend(q, req, id, t) ==
    [messageId |-> id,
     messageGroupId |-> q.objects[id].messageGroupId,
     sequenceNumber |-> q.objects[id].sequenceNumber,
     deduplicationId |-> req.deduplicationId,
     at |-> t]

QueueSeen == IF 1 \in DOMAIN svcResults THEN svcResults[1] ELSE NoQueueCalls

\* one request to the queue, through processRequests or by calling the
\* method itself
QueueCall(req, via) ==
    /\ calls < MaxQueueCalls
    /\ \E r \in (IF via THEN QueueProcessRequests(instances[1], req, now)
                 ELSE {ProcessQueueOperation(instances[1], req, now)}) :
        /\ calls' = calls + 1
        /\ lastCall' = Call(req.queueOperation, calls + 1)
        /\ instances' = (1 :> r.q)
        /\ svcResults' =
              (1 :> [request |-> req, viaProcessRequests |-> via, result |-> r.result,
                     accepted |->
                         IF req.queueOperation = "sendMessage" /\ r.result.success
                         THEN Append(QueueSeen.accepted,
                                     AcceptedSend(r.q, req, r.result.messageId, now))
                         ELSE QueueSeen.accepted])
        /\ UNCHANGED <<loopVars, timeVars, gsServices, providers, regServices, nextId,
                       connections, generator, tickResults, inspection, registryCall,
                       invoked, snapshot>>

\* the message groups and deduplication ids of the sends (0: not given)
QueueGroups == {0, 1, 2}
QueueDedupIds == {0, 1}

QueueSend ==
    \E g \in QueueGroups, d \in QueueDedupIds, via \in BOOLEAN :
        /\ g = 0 => d = 0
        /\ QueueCall(QueueRequest("sendMessage", g, d, 0, 0, 0), via)

QueueReceive ==
    \E n \in {0, 2}, via \in BOOLEAN :
        QueueCall(QueueRequest("receiveMessage", 0, 0, n, 0, 0), via)

QueueDelete ==
    \E h \in 0..(instances[1].nextReceipt - 1), via \in BOOLEAN :
        QueueCall(QueueRequest("deleteMessage", 0, 0, 0, h, 0), via)

QueueChangeVisibility ==
    \E h \in 1..(instances[1].nextReceipt - 1), v \in {0, VisibilityTimeout} :
        QueueCall(QueueRequest("changeMessageVisibility", 0, 0, 0, h, v), FALSE)

QueuePurge ==
    \E via \in BOOLEAN : QueueCall(QueueRequest("purgeQueue", 0, 0, 0, 0, 0), via)

\* the times looked at: past the visibility timeout, past the deduplication window
QueueTimes == {VisibilityTimeout + 1, DeduplicationWindow + 1}

QueueElapse ==
    \E t \in QueueTimes :
        /\ t > now
        /\ now' = t
        /\ lastCall' = Call("time passes", t)
        /\ UNCHANGED <<clock, timeouts, loopVars, topoVars, generator, obsVars, calls>>

NextQueue ==
    \/ QueueSend
    \/ QueueReceive
    \/ QueueDelete
    \/ QueueChangeVisibility
    \/ QueuePurge
    \/ QueueElapse

SpecQueue == InitQueue /\ [][NextQueue]_vars

----------------------------------------------------------------------------
(* AWSCache: one cache node on its own.  cacheData is kept as its entries  *)
(* in insertion order, each with its key; a key k stands for a string of   *)
(* its own; the calls made at one value of the model's time read the same  *)
(* Date.now().                                                             *)

MaxCacheCalls == 2
MaxCacheTime == 1

\* calculateMaxMemory: GB per node type, in hundredths (|| 1.0 otherwise)
CalculateMaxMemory(nodeType) ==
    CASE nodeType = "cache.t3.micro"  -> 50
      [] nodeType = "cache.t3.small"  -> 137
      [] nodeType = "cache.t3.medium" -> 309
      [] nodeType = "cache.m5.large"  -> 638
      [] nodeType = "cache.m5.xlarge" -> 1293
      [] nodeType = "cache.r5.large"  -> 1230
      [] nodeType = "cache.r5.xlarge" -> 2505
      [] OTHER                        -> 100

\* AWSCache constructor
NewCache(id, evictionPolicy) ==
    NewService(id, Config("cache", 0))
    @@ [ nodeType |-> "cache.t3.micro",
         maxMemory |-> CalculateMaxMemory("cache.t3.micro"),
         evictionPolicy |-> evictionPolicy,
         cacheData |-> <<>>,
         cacheStats |-> [gets |-> 0, sets |-> 0, hits |-> 0, misses |-> 0,
                         evictions |-> 0] ]

\* getMaxCacheSize: Math.floor(maxMemory * 1024 * 1024 / 1024)
GetMaxCacheSize(c) == (c.maxMemory * 1024 * 1024) \div (1024 * 100)

\* cacheData.has(key)
CacheDataHas(data, key) == \E i \in DOMAIN data : data[i].key = key

\* cacheData.delete(key)
CacheDataDelete(data, key) == SelectSeq(data, LAMBDA e : e.key # key)

\* cacheData.set(key, entry): a key that is stored keeps its place
CacheDataSet(data, key, entry) ==
    IF CacheDataHas(data, key)
    THEN [i \in DOMAIN data |-> IF data[i].key = key THEN entry ELSE data[i]]
    ELSE Append(data, entry)

\* the loop of evictCacheEntry over a field of the entries: the first key,
\* in insertion order, of the smallest value below Date.now(), if any
OldestKeys(data, field, t) ==
    LET below == { data[i][field] : i \in DOMAIN data } \cap 0..(DateNow(t) - 1)
        oldest == CHOOSE v \in below : \A w \in below : v <= w
        first == CHOOSE i \in DOMAIN data :
                    /\ data[i][field] = oldest
                    /\ \A j \in 1..(i - 1) : data[j][field] # oldest
    IN  IF below = {} THEN {} ELSE {data[first].key}

\* evictCacheEntry: keyToEvict, as a set of at most one key (empty: null);
\* random is the value of Math.random(), a fraction below 1
KeyToEvict(c, t, random) ==
    CASE c.evictionPolicy = "allkeys-lru"    -> OldestKeys(c.cacheData, "lastAccess", t)
      [] c.evictionPolicy = "allkeys-random" ->
            {c.cacheData[(random.num * Len(c.cacheData)) \div random.den + 1].key}
      [] c.evictionPolicy = "volatile-lru"   -> OldestKeys(c.cacheData, "createdAt", t)
      [] OTHER                               -> {}

\* AWSCache.evictCacheEntry
EvictCacheEntry(c, t, random) ==
    IF c.cacheData = <<>> \/ KeyToEvict(c, t, random) = {} THEN c
    ELSE LET key == CHOOSE k \in KeyToEvict(c, t, random) : TRUE
         IN  [c EXCEPT !.cacheData = CacheDataDelete(@, key),
                       !.cacheStats.evictions = @ + 1]

\* AWSCache.setCacheValue
SetCacheValue(c, key, t, random) ==
    LET entry == [key |-> key, createdAt |-> DateNow(t), lastAccess |-> DateNow(t)]
        c1 == IF Len(c.cacheData) >= GetMaxCacheSize(c)
              THEN EvictCacheEntry(c, t, random) ELSE c
    IN  [c1 EXCEPT !.cacheData = CacheDataSet(@, key, entry)]

\* AWSCache.simulateCacheOperation
SimulateCacheOperation(c, operation, key, t, random) ==
    CASE operation = "get" ->
            IF CacheDataHas(c.cacheData, key)
            THEN [c EXCEPT !.cacheStats.gets = @ + 1, !.cacheStats.hits = @ + 1,
                           !.cacheData =
                               [i \in DOMAIN c.cacheData |->
                                   IF c.cacheData[i].key = key
                                   THEN [c.cacheData[i] EXCEPT !.lastAccess = DateNow(t)]
                                   ELSE c.cacheData[i]]]
            ELSE [c EXCEPT !.cacheStats.gets = @ + 1, !.cacheStats.misses = @ + 1]
      [] operation = "set" ->
            SetCacheValue([c EXCEPT !.cacheStats.sets = @ + 1], key, t, random)
      [] operation = "delete" ->
            [c EXCEPT !.cacheData = CacheDataDelete(@, key)]

\* the loop of processRequests over a batch of n requests of one operation
\* on the keys first, first + 1, ...: the first half of the batch, then the
\* second half; every Math.random() of the batch gives the same value
RECURSIVE CacheBatch(_, _, _, _, _, _)
CacheBatch(c, operation, first, n, t, random) ==
    IF n = 0 THEN c
    ELSE IF n = 1 THEN SimulateCacheOperation(c, operation, first, t, random)
    ELSE LET half == n \div 2
             c1 == CacheBatch(c, operation, first, half, t, random)
         IN  \* the test has the first half evaluated before the second begins
             IF Len(c1.cacheData) >= 0
             THEN CacheBatch(c1, operation, first + half, n - half, t, random)
             ELSE c1

\* AWSCache.processRequests with such a batch, far below the capacity of
\* 10000, so that no request is dropped
CacheProcessRequests(c, operation, first, n, t, random) ==
    LET reqs == [i \in 1..n |-> NewRequest("user", "/")]
    IN  { CacheBatch(o.svc, operation, first, n, t, random)
          : o \in { x \in PlainProcessRequests(c, reqs) : x.dropped = 0 } }

\* the values of Math.random() drawn: 0 and 1/2
RandomDraws == { [num |-> 0, den |-> 2], [num |-> 1, den |-> 2] }

\* the eviction policies of the nodes
EvictionPolicies == {"allkeys-lru", "allkeys-random", "volatile-lru"}

InitCache ==
    /\ InitServiceIn({ NewCache(1, policy) : policy \in EvictionPolicies })

\* the batches: the first key, as many keys as fill the node, one key more
CacheBatches ==
    LET max == GetMaxCacheSize(NewCache(1, "allkeys-lru"))
    IN  { [first |-> 1, n |-> 1], [first |-> 1, n |-> max], [first |-> max + 1, n |-> 1] }

\* cache.processRequests(batch)
CacheOffer ==
    /\ calls < MaxCacheCalls
    /\ \E operation \in {"get", "set", "delete"}, b \in CacheBatches, random \in RandomDraws :
          /\ instances[1].evictionPolicy # "allkeys-random" => random.num = 0
          /\ \E c \in CacheProcessRequests(instances[1], operation, b.first, b.n, now,
                                            random) :
                /\ calls' = calls + 1
                /\ lastCall' = Call(operation, b.n)
                /\ instances' = (1 :> c)
                /\ svcResults' = (1 :> [offered |-> b.n, processed |-> b.n, dropped |-> 0,
                                        blocked |-> 0])
                /\ UNCHANGED <<loopVars, timeVars, gsServices, providers, regServices,
                               nextId, connections, generator, tickResults, inspection,
                               registryCall, invoked, snapshot>>

\* Date.now() moves on between two batches
CacheElapse ==
    /\ now < MaxCacheTime
    /\ now' = now + 1
    /\ lastCall' = Call("time passes", now + 1)
    /\ UNCHANGED <<clock, timeouts, loopVars, topoVars, generator, obsVars, calls>>

NextCache == CacheOffer \/ CacheElapse

SpecCache == InitCache /\ [][NextCache]_vars

----------------------------------------------------------------------------
(* One AWSDatabase on its own over the minute a Multi-AZ failover takes *)

MaxFailoverTime == 60

\* the seconds that pass between two calls
FailoverWaits == {30}

InitFailover ==
    /\ InitService
    /\ instances[1].kind = "database"

\* the setTimeout callback of handleFailover: the zones are swapped
FailoverComplete ==
    \E i \in DOMAIN timeouts :
        /\ timeouts[i].kind = "failover"
        /\ timeouts[i].due <= now
        /\ instances' = [instances EXCEPT
                            ![1].availabilityZone = instances[1].secondaryAZ,
                            ![1].secondaryAZ = instances[1].availabilityZone]
        /\ timeouts' = SubSeq(timeouts, 1, i - 1) \o SubSeq(timeouts, i + 1, Len(timeouts))
        /\ lastCall' = Call("failover timeout", 0)
        /\ UNCHANGED <<now, clock, loopVars, gsServices, providers, regServices, nextId,
                       connections, generator, obsVars, calls>>

\* time passes; a timeout that is due fires before time moves on
ElapseFailover ==
    \E w \in FailoverWaits :
        /\ now + w <= MaxFailoverTime
        /\ \A i \in DOMAIN timeouts : timeouts[i].due > now
        /\ now' = now + w
        /\ lastCall' = Call("time passes", now + w)
        /\ UNCHANGED <<clock, timeouts, loopVars, topoVars, generator, obsVars, calls>>

NextFailover == Offer \/ FailoverComplete \/ ElapseFailover

SpecFailover == InitFailover /\ [][NextFailover]_vars

----------------------------------------------------------------------------
(* One AWSWAF on its own: custom rules are added, requests are inspected *)

MaxCustomRules == 2

\* the configurations the firewall is constructed with (capacity 0: the
\* default of 25000)
WAFConfigs ==
    { [Config("waf", c) EXCEPT !.defaultAction = a] : c \in {0, 1}, a \in {"ALLOW", "BLOCK"} }

\* a condition of a custom rule on the request path
PathCondition(path) ==
    [field |-> [type |-> "URI"], operator |-> "EXACTLY_MATCHES", value |-> path]

\* the ruleConfig objects handed to addCustomRule: before, level with and
\* after the managed rule groups (priorities 1, 2, 3); a rule without
\* conditions matches every request
RuleConfigs ==
    [ priority : {0, 2, 5}, action : {"BLOCK", "ALLOW", "COUNT"},
      conditions : { <<PathCondition("/admin")>>, <<>> } ]

\* the paths of the requests inspected
InspectedPaths == {"/", "/admin", "/../../etc/passwd"}

\* this.customRules.size
CustomRuleCount(s) == Len(SelectSeq(s.rules, LAMBDA r : r.type = "CUSTOM"))

InitWAF ==
    /\ now = 0
    /\ tick = 0
    /\ isRunning = FALSE
    /\ metrics = InitialMetrics
    /\ costs = InitialCosts
    /\ currentRequests = <<>>
    /\ gsServices = {1}
    /\ providers = [InitialProviders EXCEPT !["aws"] = <<1>>]
    /\ clock = InitialClock
    /\ regServices = <<1>>
    /\ \E cfg \in WAFConfigs : instances = (1 :> NewService(1, cfg))
    /\ nextId = 1
    /\ generator = InitialGenerator
    /\ timeouts = <<>>
    /\ eventHistory = <<>>
    /\ tickResults = NoResults
    /\ svcResults = EmptyMap
    /\ inspection = NoInspection
    /\ registryCall = NoRegistryCall
    /\ subscribers = NoSubscribers
    /\ invoked = <<>>
    /\ snapshot = NoSnapshot
    /\ connections = EmptyMap
    /\ calls = 0
    /\ lastCall = Call("new AWSWAF", "")

\* AWSWAF.addCustomRule(ruleConfig)
AddCustomRule ==
    \E rc \in RuleConfigs :
        /\ calls < MaxCalls
        /\ CustomRuleCount(instances[1]) < MaxCustomRules
        /\ calls' = calls + 1
        /\ lastCall' = Call("addCustomRule", "")
        /\ instances' = [instances EXCEPT
                           ![1].rules = Append(@, CustomRule(rc, CustomRuleCount(instances[1]) + 1))]
        /\ UNCHANGED <<loopVars, timeVars, gsServices, providers, regServices, nextId,
                       connections, generator, obsVars>>

\* AWSWAF.inspectRequest(request), called directly
Inspect ==
    \E path \in InspectedPaths :
        /\ calls < MaxCalls
        /\ calls' = calls + 1
        /\ lastCall' = Call("inspectRequest", path)
        /\ inspection' = InspectRequest(instances[1], NewRequest("user", path))
        /\ UNCHANGED <<loopVars, timeVars, topoVars, generator, tickResults, svcResults,
                       registryCall, invoked, snapshot>>

\* AWSWAF.processRequests(requests) with a batch of one request
OfferWAF ==
    \E path \in InspectedPaths :
        LET reqs == <<NewRequest("user", path)>>
        IN  \E D \in WAFDroppedPositions(instances[1], reqs) :
              LET o == WAFOutcome(instances[1], reqs, D)
              IN  /\ calls < MaxCalls
                  /\ calls' = calls + 1
                  /\ lastCall' = Call("processRequests", path)
                  /\ instances' = (1 :> o.svc)
                  /\ svcResults' = (1 :> [offered |-> 1, processed |-> o.processed,
                                          dropped |-> o.dropped, blocked |-> o.blocked,
                                          wafActions |-> WAFActions(instances[1], reqs, D)])
                  /\ UNCHANGED <<loopVars, timeVars, gsServices, providers, regServices,
                                 nextId, connections, generator, tickResults, inspection,
                                 registryCall, invoked, snapshot>>

NextWAF == AddCustomRule \/ Inspect \/ OfferWAF

SpecWAF == InitWAF /\ [][NextWAF]_vars

----------------------------------------------------------------------------
(* The game loop with handlers and clock callbacks added by its user, some of
   which throw *)

MaxHandlers == 2

\* the notifications the added handlers subscribe to
HandlerTypes == {"tick_start", "traffic_generated", "ui_update"}

\* eventBus.on(type, handler): the handler throws when invoked, or does not
Subscribe ==
    \E type \in HandlerTypes, throws \in BOOLEAN :
        /\ calls < MaxCalls
        /\ Len(subscribers.events) < MaxHandlers
        /\ calls' = calls + 1
        /\ lastCall' = Call("on", 0)
        /\ subscribers' = [subscribers EXCEPT
                             !.events = Append(@, [type |-> type, throws |-> throws,
                                                   mutates |-> FALSE])]
        /\ UNCHANGED <<tick, isRunning, metrics, costs, currentRequests, eventHistory, timeVars,
                       topoVars, generator, obsVars>>

\* clock.addCallback(callback)
AddCallback ==
    \E throws \in BOOLEAN :
        /\ calls < MaxCalls
        /\ Len(subscribers.clock) < MaxHandlers
        /\ calls' = calls + 1
        /\ lastCall' = Call("addCallback", 0)
        /\ subscribers' = [subscribers EXCEPT !.clock = Append(@, [throws |-> throws])]
        /\ UNCHANGED <<tick, isRunning, metrics, costs, currentRequests, eventHistory, timeVars,
                       topoVars, generator, obsVars>>

NextHandlers ==
    \/ Subscribe
    \/ AddCallback
    \/ Start
    \/ Pause
    \/ Elapse
    \/ ClockFire
    \/ ExecuteTickDirect

SpecHandlers == InitLoop /\ [][NextHandlers]_vars

----------------------------------------------------------------------------
(* The event bus on its own: handlers that subscribe and unsubscribe while an
   emit is dispatching *)

MaxBusHandlers == 3

\* the notification the handlers of this part subscribe to (it has no
\* handler of the loop's own)
BusType == "ui_update"

\* a handler function: what it does when invoked is nothing, or
\* eventBus.off(BusType, target), or eventBus.on(BusType, target), target
\* being the id of a handler function
BusHandler(id, op, target) ==
    [type |-> BusType, throws |-> FALSE, mutates |-> FALSE, id |-> id,
     does |-> [op |-> op, target |-> target]]

\* the handler functions: 1 does nothing, 2 takes itself off, 3 takes 1 off,
\* 4 subscribes 1
BusHandlers ==
    << BusHandler(1, "nothing", 0), BusHandler(2, "off", 2), BusHandler(3, "off", 1),
       BusHandler(4, "on", 1) >>

\* EventBus.off: indexOf + splice on the array of the type
BusOff(list, id) ==
    IF \A i \in DOMAIN list : list[i].id # id THEN list
    ELSE LET i == CHOOSE j \in DOMAIN list :
                      list[j].id = id /\ \A k \in 1..(j - 1) : list[k].id # id
         IN  SubSeq(list, 1, i - 1) \o SubSeq(list, i + 1, Len(list))

\* EventBus.on: push onto the array of the type
BusOn(list, id) == Append(list, BusHandlers[id])

\* the array after the handler h has run
AfterHandler(list, h) ==
    CASE h.does.op = "off" -> BusOff(list, h.does.target)
      [] h.does.op = "on"  -> BusOn(list, h.does.target)
      [] OTHER             -> list

\* Array.prototype.forEach over the array itself, as emit calls it (lines
\* 68-76): the indexes 0..len-1, len being the length when it starts, each
\* visited if the array still has it when its turn comes
RECURSIVE ForEach(_, _, _, _)
ForEach(list, i, len, invs) ==
    IF i > len THEN [list |-> list, invoked |-> invs]
    ELSE IF i > Len(list) THEN ForEach(list, i + 1, len, invs)
    ELSE ForEach(AfterHandler(list, list[i]), i + 1, len,
                 Append(invs, Invocation(BusType, "added", list[i].id, FALSE)))

\* EventBus.emit, lines 68-76, for the handlers of this part
Dispatch(list) == ForEach(list, 1, Len(list), <<>>)

\* eventBus.on(BusType, h)
BusSubscribe ==
    \E id \in DOMAIN BusHandlers :
        /\ calls < MaxCalls + MaxBusHandlers
        /\ Len(subscribers.events) < MaxBusHandlers
        /\ calls' = calls + 1
        /\ lastCall' = Call("on", id)
        /\ subscribers' = [subscribers EXCEPT !.events = BusOn(@, id)]
        /\ UNCHANGED <<tick, isRunning, metrics, costs, currentRequests, eventHistory, timeVars,
                       topoVars, generator, obsVars>>

\* eventBus.off(BusType, h)
BusUnsubscribe ==
    \E id \in DOMAIN BusHandlers :
        /\ calls < MaxCalls + MaxBusHandlers
        /\ calls' = calls + 1
        /\ lastCall' = Call("off", id)
        /\ subscribers' = [subscribers EXCEPT !.events = BusOff(@, id)]
        /\ UNCHANGED <<tick, isRunning, metrics, costs, currentRequests, eventHistory, timeVars,
                       topoVars, generator, obsVars>>

\* eventBus.emit(BusType)
BusEmit ==
    LET done == Dispatch(subscribers.events)
    IN  /\ calls < MaxCalls + MaxBusHandlers
        /\ Len(eventHistory) < MaxCalls
        /\ calls' = calls + 1
        /\ lastCall' = Call("emit", Len(subscribers.events))
        /\ eventHistory' = Append(eventHistory, Event(BusType, tick, Nothing, Nothing))
        /\ subscribers' = [subscribers EXCEPT !.events = done.list]
        /\ invoked' = done.invoked
        /\ UNCHANGED <<tick, isRunning, metrics, costs, currentRequests, timeVars,
                       topoVars, generator, tickResults, svcResults, inspection,
                       registryCall, snapshot>>

NextBus == BusSubscribe \/ BusUnsubscribe \/ BusEmit

SpecBus == InitLoop /\ [][NextBus]_vars

----------------------------------------------------------------------------
(* Status snapshots: CloudFall.state() and what its caller does with the
   object it got *)

\* a write through c by its holder, new being the object as written: it
\* lands in the holder's own value, or in the live object where c is a
\* reference to it
Write(c, live, new) ==
    IF c.shared THEN [held |-> c, live |-> new]
    ELSE [held |-> Copy(new), live |-> live]

\* window.CloudFall.state (main.js 93): gameState.getSnapshot()
TakeSnapshot ==
    /\ snapshot' = GetSnapshot(tick, isRunning, providers, metrics, gsServices, costs)
    /\ lastCall' = Call("getSnapshot", 0)
    /\ UNCHANGED <<loopVars, topoVars, timeVars, generator, tickResults, svcResults,
                   inspection, registryCall, invoked, calls>>

\* what the holder of a snapshot writes to: snapshot.tick = 0; the aws
\* section (services.length = 0, totalCost = 0); the metrics (gameOver = true,
\* totalCost = 0)
SnapshotWrites == {"tick", "providers", "metrics"}

\* the holder of the snapshot returned last writes into it
MutateSnapshot ==
    /\ snapshot # NoSnapshot
    /\ \E field \in SnapshotWrites :
          LET emptied(v) == [v EXCEPT !["aws"] = <<>>]
              over(v) == [v EXCEPT !.gameOver = TRUE]
              zero(v) == <<>>
              ps == Write(snapshot.providers, providers,
                          emptied(Read(snapshot.providers, providers)))
              pc == Write(snapshot.providerCosts, costs.providers,
                          emptied(Read(snapshot.providerCosts, costs.providers)))
              ms == Write(snapshot.metrics, metrics, over(Read(snapshot.metrics, metrics)))
              tc == Write(snapshot.totalCost, costs.metrics,
                          zero(Read(snapshot.totalCost, costs.metrics)))
          IN  CASE field = "tick" ->
                     /\ snapshot' = [snapshot EXCEPT !.tick = 0]
                     /\ UNCHANGED <<providers, metrics, costs>>
                [] field = "providers" ->
                     /\ snapshot' = [snapshot EXCEPT !.providers = ps.held,
                                                      !.providerCosts = pc.held]
                     /\ providers' = ps.live
                     /\ costs' = [costs EXCEPT !.providers = pc.live]
                     /\ UNCHANGED metrics
                [] field = "metrics" ->
                     /\ snapshot' = [snapshot EXCEPT !.metrics = ms.held,
                                                      !.totalCost = tc.held]
                     /\ metrics' = ms.live
                     /\ costs' = [costs EXCEPT !.metrics = tc.live]
                     /\ UNCHANGED providers
    /\ lastCall' = Call("write to snapshot", 0)
    /\ UNCHANGED <<tick, isRunning, currentRequests, eventHistory, subscribers, gsServices,
                   regServices, instances, nextId, connections, timeVars, generator,
                   tickResults, svcResults, inspection, registryCall, invoked, calls>>

NextSnapshot ==
    \/ TakeSnapshot
    \/ MutateSnapshot
    \/ Start
    \/ Reset
    \/ Deploy
    \/ Remove
    \/ ExecuteTickDirect

SpecSnapshot == InitLoop /\ [][NextSnapshot]_vars

----------------------------------------------------------------------------
(* Handlers that write to the payload they are given *)

\* the notifications of a tick whose payload is an object
PayloadTypes ==
    {"tick_start", "traffic_generated", "requests_processed", "metrics_updated", "ui_update"}

\* eventBus.on(type, handler) with a handler that writes to its payload
SubscribeWriter ==
    \E type \in PayloadTypes :
        /\ calls < MaxCalls
        /\ Len(subscribers.events) < MaxHandlers
        /\ calls' = calls + 1
        /\ lastCall' = Call("on", 0)
        /\ subscribers' = [subscribers EXCEPT
                             !.events = Append(@, [type |-> type, throws |-> FALSE,
                                                   mutates |-> TRUE])]
        /\ UNCHANGED <<tick, isRunning, metrics, costs, currentRequests, eventHistory, timeVars,
                       topoVars, generator, obsVars>>

NextPayload ==
    \/ SubscribeWriter
    \/ Deploy
    \/ Start
    \/ Reset
    \/ ExecuteTickDirect

SpecPayload == InitLoop /\ [][NextPayload]_vars

----------------------------------------------------------------------------
(* Traffic spikes, one after or over the other, with the time passing and the
   timers firing when they are due *)

\* the multipliers and durations (seconds) of the spikes: two of each, so
\* that a spike can be triggered while another is on
OverlapMultipliers == {2, 5}
OverlapDurations == {1, 2}

\* triggerTrafficSpike(m, d) with a spike that ends within the time explored
TriggerSpikeInTime ==
    \E m \in OverlapMultipliers, d \in OverlapDurations :
        /\ now + d <= MaxTime
        /\ TriggerTrafficSpike(m, d)

NextSpike ==
    \/ TriggerSpikeInTime
    \/ SpikeExpire
    \/ Elapse
    \/ Reset
    \/ ExecuteTickDirect

\* the wall clock goes on and a setTimeout callback runs when it is due
SpecSpike ==
    InitLoop /\ [][NextSpike]_vars /\ WF_vars(Elapse) /\ WF_vars(SpikeExpire)

----------------------------------------------------------------------------
(* The traffic generator on its own, tick after tick, with every attack
   length and volume at the ends of their ranges *)

\* floor(random * 10) and floor(random * 100): the least and the greatest
AttackDurationDraws == {0, 9}
AttackVolumeDraws == {0, 99}

\* trafficGenerator.generateTraffic(t)
GenerateTrafficCall ==
    \E t \in 1..MaxTickNumber, d \in Draws(AttackDurationDraws, AttackVolumeDraws) :
        LET traffic == GenerateTraffic(t, generator, d)
        IN  /\ generator' = traffic.generator
            /\ currentRequests' = traffic.requests
            /\ lastCall' = Call("generateTraffic", t)
            /\ UNCHANGED <<tick, isRunning, metrics, costs, eventHistory, subscribers,
                           topoVars, timeVars, obsVars, calls>>

\* trafficGenerator.reset()
GeneratorResetCall ==
    /\ generator' = GeneratorReset(generator)
    /\ lastCall' = Call("generator reset", 0)
    /\ UNCHANGED <<loopVars, topoVars, timeVars, obsVars, calls>>

NextGenerator ==
    \/ GenerateTrafficCall
    \/ GeneratorResetCall
    \/ TriggerSpikeInTime
    \/ SpikeExpire
    \/ Elapse

SpecGenerator == InitLoop /\ [][NextGenerator]_vars

----------------------------------------------------------------------------
(* Properties *)

TickCalls == {"executeTick", "clock tick"}

\* load and health of every instance
LoadAndHealth(insts) ==
    [id \in DOMAIN insts |-> <<insts[id].currentLoad, insts[id].health>>]

\* C1: once metrics.gameOver is set, a later executeTick, fired by the clock or
\* called directly, changes neither the tick counter, the metrics, the current
\* batch nor any service's load and health, and emits no event; the game is not
\* running while gameOver is set (start() does not start it), and only reset()
\* clears gameOver.
C1_TickAfterGameOverIsNoOp ==
    [][ /\ (metrics.gameOver /\ lastCall'.op \in TickCalls)
            => /\ UNCHANGED <<tick, metrics, currentRequests, eventHistory>>
               /\ LoadAndHealth(instances') = LoadAndHealth(instances)
        /\ (metrics.gameOver /\ lastCall'.op = "start")
            => (~isRunning' /\ ~clock'.isRunning /\ UNCHANGED metrics)
        /\ metrics'.gameOver => (~isRunning' /\ ~clock'.isRunning)
        /\ (metrics.gameOver /\ ~metrics'.gameOver) => lastCall'.op = "reset"
      ]_vars

\* the game is over after tick 1 and executeTick(2) has been called since
C1_Witness ==
    /\ metrics.gameOver
    /\ lastCall = Call("executeTick", 2)
    /\ tick = 1
    /\ ~isRunning

\* C2: the totals ServiceRegistry.processRequests returns for a tick add up to
\* the number of requests offered: processed + dropped + blocked = offered.
C2_CountsAddUp ==
    tickResults.processed + tickResults.dropped + tickResults.blocked = tickResults.offered

\* C3: a tick with no service deployed and a non-empty batch reports every
\* request dropped, none processed, and leaves the availability at 0.
C3_NoServicesDropsAll ==
    (lastCall.op \in TickCalls /\ tickResults.services = 0 /\ tickResults.offered > 0)
        => /\ tickResults.dropped = tickResults.offered
           /\ tickResults.processed = 0
           /\ metrics.availability.p = 0

\* C4: right after GameLoop.reset() the registry holds no instance and agrees
\* with the game state's empty service map and provider lists, the clock is
\* stopped at tick count 0, the metrics are the initial ones and the generator
\* has no attack in progress and multiplier 1.
C4_ResetClearsAll ==
    lastCall.op = "reset"
        => /\ regServices = <<>>
           /\ DOMAIN instances = {}
           /\ gsServices = {}
           /\ providers = InitialProviders
           /\ clock = InitialClock
           /\ metrics = InitialMetrics
           /\ generator = InitialGenerator

C6_ReputationInRange ==
    metrics.reputation >= 0 /\ metrics.reputation <= 1000

\* more was dropped than the reputation could pay for: it stopped at 0
C6_Witness ==
    /\ metrics.reputation = 0
    /\ 5 * metrics.requestsDropped > 1000 + metrics.requestsBlocked

\* C7: updateMetrics with d dropped and b blocked sets the reputation to
\* clamp(previous - 0.5 d + 0.1 b, 0, 100) (in tenths: previous - 5 d + b within
\* 0..1000); from 100, d = 20 and b = 10 give 91.
C7_ReputationUpdate ==
    [][ LET d == tickResults'.dropped
            b == tickResults'.blocked
            raw == metrics.reputation - 5 * d + b
        IN  /\ metrics'.reputation = (IF raw < 0 THEN 0 ELSE IF raw > 1000 THEN 1000 ELSE raw)
            /\ (metrics.reputation = 1000 /\ d = 20 /\ b = 10) => metrics'.reputation = 910
      ]_vars

\* the first update dropped 20 and blocked 10, and the reputation is 91
C7_Witness ==
    /\ calls = 1
    /\ tickResults.dropped = 20
    /\ tickResults.blocked = 10
    /\ metrics.reputation = 910

RECURSIVE SumBlocked(_, _)
SumBlocked(results, ids) ==
    IF ids = {} THEN 0
    ELSE LET id == CHOOSE x \in ids : TRUE
         IN  results[id].blocked + SumBlocked(results, ids \ {id})

\* C8: what the firewall instances blocked in a tick is what the registry
\* reports as blocked for that tick, and metrics.requestsBlocked, which grows by
\* it, is at least as large.
C8_BlockedIsCounted ==
    lastCall.op \in TickCalls /\ tickResults.offered > 0
        => /\ tickResults.blocked = SumBlocked(svcResults, DOMAIN svcResults)
           /\ metrics.requestsBlocked >= SumBlocked(svcResults, DOMAIN svcResults)

\* the health the thresholds give an instance offered n requests
ThresholdHealth(s, n) ==
    IF 100 * n > FailureThreshold(s.kind) * LoadRatio(s, n).den THEN "failed"
    ELSE IF 100 * n > DegradationThreshold(s.kind) * LoadRatio(s, n).den THEN "degraded"
    ELSE "healthy"

DefaultCompute(s) ==
    /\ s.kind = "compute"
    /\ s.capacity = 500
    /\ s.isBurstable
    /\ ~s.spotInstance
    /\ ~s.reservedInstance

C11_FailedDropsAll ==
    \A id \in DOMAIN svcResults :
        (id \in DOMAIN instances /\ lastCall.op = "processRequests"
            /\ instances[id].health = "failed")
        => /\ svcResults[id].processed = 0
           /\ svcResults[id].blocked = 0
           /\ svcResults[id].dropped = svcResults[id].offered

\* a batch of 3 on a capacity-2 instance (load 1.5 is over the failure
\* threshold 1.3 but under twice that, where a healthy instance would drop
\* only some) left the instance failed and all 3 dropped
C11_Witness ==
    /\ lastCall = Call("processRequests", 3)
    /\ instances[1].kind = "compute"
    /\ ~instances[1].spotInstance
    /\ instances[1].health = "failed"
    /\ svcResults[1] = [offered |-> 3, processed |-> 0, dropped |-> 3, blocked |-> 0]

\* the priorities of the rules with the given ids, in the order of the ids
PrioritiesOf(s, ids) ==
    [k \in DOMAIN ids |-> (CHOOSE r \in Range(s.rules) : r.id = ids[k]).priority]

\* C12: inspectRequest evaluates the combined rule list in ascending priority
\* and stops at the first matching rule with a terminating action (ALLOW,
\* BLOCK, CAPTCHA, CHALLENGE).  That rule's action is the final action, it is
\* the terminating rule and the last entry of matchedRules; no matching
\* terminating rule has a lower priority, matchedRules is in ascending priority,
\* holds every matching rule of lower priority and no rule of higher priority.
\* Without a matching terminating rule, matchedRules holds every matching rule.
C12_FirstTerminatingRuleWins ==
    lastCall.op = "inspectRequest" =>
        LET s == instances[1]
            req == NewRequest("user", lastCall.arg)
            matching == { r \in Range(s.rules) : EvaluateRule(req, r) }
            terminating == { r \in matching : r.action \in TerminatingActions }
            matched == inspection.matchedRules
            prio == PrioritiesOf(s, matched)
        IN  /\ Range(matched) \subseteq { r.id : r \in matching }
            /\ \A j, k \in DOMAIN matched : j < k => (matched[j] # matched[k] /\ prio[j] <= prio[k])
            /\ IF terminating = {}
               THEN /\ inspection.terminatingRule = <<>>
                    /\ Range(matched) = { r.id : r \in matching }
               ELSE \E t \in terminating :
                      /\ inspection.terminatingRule = t.id
                      /\ inspection.action = t.action
                      /\ matched # <<>> /\ matched[Len(matched)] = t.id
                      /\ \A r \in terminating : r.priority >= t.priority
                      /\ \A r \in matching : r.priority < t.priority => r.id \in Range(matched)
                      /\ \A k \in DOMAIN matched : prio[k] <= t.priority

\* a custom ALLOW rule of priority 0 that matches every request ended the
\* inspection of a request the managed rule group of priority 2 would block
C12_Witness ==
    /\ lastCall = Call("inspectRequest", "/../../etc/passwd")
    /\ \E r \in Range(instances[1].rules) :
          /\ r.type = "CUSTOM" /\ r.priority = 0 /\ r.action = "ALLOW" /\ r.conditions = <<>>
          /\ inspection.terminatingRule = r.id
    /\ inspection.action = "ALLOW"
    /\ Len(inspection.matchedRules) = 2

\* the firewall without its COUNT rules
WithoutCountRules(s) ==
    [s EXCEPT !.rules = SelectSeq(@, LAMBDA r : r.action # "COUNT")]

\* C13: a matching COUNT rule never changes the final disposition: the final
\* action of inspectRequest equals the final action the same firewall gives the
\* same request with all its COUNT rules removed; when no matching rule has a
\* terminating action, the final action is the configured default action.
C13_CountRulesDoNotDecide ==
    lastCall.op = "inspectRequest" =>
        LET s == instances[1]
            req == NewRequest("user", lastCall.arg)
            deciding == { r \in Range(s.rules) :
                            /\ EvaluateRule(req, r)
                            /\ r.action \in {"ALLOW", "BLOCK", "CAPTCHA", "CHALLENGE"} }
        IN  /\ inspection.action = InspectRequest(WithoutCountRules(s), req).action
            /\ deciding = {} => inspection.action = s.defaultAction

\* a COUNT rule of priority 0 matched a request to /admin, a BLOCK rule after
\* it decided; and a COUNT rule matched a request nothing else matched, which
\* got the default action
C13_Witness ==
    /\ lastCall.op = "inspectRequest"
    /\ \E r \in Range(instances[1].rules) :
          /\ r.action = "COUNT" /\ r.priority = 0
          /\ Len(inspection.matchedRules) >= 1
          /\ inspection.matchedRules[1] = r.id
          /\ \/ lastCall.arg = "/admin" /\ inspection.action = "BLOCK"
                 /\ instances[1].defaultAction = "ALLOW"
                 /\ Len(inspection.matchedRules) = 2
             \/ lastCall.arg = "/" /\ inspection.terminatingRule = <<>>
                 /\ inspection.action = instances[1].defaultAction

\* a firewall with default action ALLOW whose only custom rule is a BLOCK rule
\* on the path /admin
AdminBlockFirewall(s) ==
    /\ s.kind = "waf"
    /\ s.defaultAction = "ALLOW"
    /\ \E r \in Range(s.rules) :
          /\ r.type = "CUSTOM"
          /\ r.action = "BLOCK"
          /\ r.conditions = <<PathCondition("/admin")>>
          /\ \A q \in Range(s.rules) : q.type = "CUSTOM" => q = r

\* C14: on a firewall with default action ALLOW and one custom BLOCK rule on
\* the path /admin, processRequests on a batch of one request to /admin gives
\* the request the final action BLOCK and returns it as the only blocked
\* entry; on a batch of one request to / it gives the final action ALLOW and
\* returns the request as the only processed entry.
C14_AdminBlockedRootAllowed ==
    (lastCall.op = "processRequests" /\ AdminBlockFirewall(instances[1])) =>
        /\ lastCall.arg = "/admin"
              => /\ svcResults[1].wafActions = <<"BLOCK">>
                 /\ svcResults[1].blocked = 1
                 /\ svcResults[1].processed = 0
                 /\ svcResults[1].dropped = 0
        /\ lastCall.arg = "/"
              => /\ svcResults[1].wafActions = <<"ALLOW">>
                 /\ svcResults[1].processed = 1
                 /\ svcResults[1].blocked = 0
                 /\ svcResults[1].dropped = 0

\* the request to /admin was blocked by that firewall
C14_Witness ==
    /\ lastCall = Call("processRequests", "/admin")
    /\ AdminBlockFirewall(instances[1])
    /\ svcResults[1].blocked = 1
    /\ instances[1].blockedRequests = 1

\* the instance breaks one of the rules: capacity <= 0, a provider other than
\* aws, gcp and azure, a negative cost, spot and reserved at once
BreaksValidationRule(s) ==
    \/ s.capacity <= 0
    \/ s.provider \notin {"aws", "gcp", "azure"}
    \/ s.baseCost < 0
    \/ (s.spotInstance /\ s.reservedInstance)

\* C15: deployService on an instance that breaks a validation rule is rejected
\* before admission: the call returns false, and the registry's service map,
\* the game state's service map, the provider id lists and the metrics are as
\* they were before the call.
C15_InvalidDeployRejected ==
    [][ (lastCall'.op = "deployService" /\ BreaksValidationRule(registryCall'.given))
            => /\ registryCall'.returned = FALSE
               /\ UNCHANGED <<regServices, instances, gsServices, providers, metrics>>
      ]_vars

\* an instance with a negative cost was turned away by a registry that holds
\* a service
C15_Witness ==
    /\ lastCall.op = "deployService"
    /\ registryCall.given.baseCost < 0
    /\ registryCall.given.capacity > 0
    /\ registryCall.returned = FALSE
    /\ Len(regServices) = 1
    /\ gsServices # {}

\* C16: removeService(id) is idempotent and never fails.  After the call the
\* id is in neither the registry nor the game state's service map, and a call
\* for an id the registry does not hold (removed before, or never deployed)
\* returns false and leaves the registry, the game state's service map, the
\* provider id lists and the connection map as they were: a second removal
\* ends in the state of the first.
C16_RemoveIsIdempotent ==
    [][ lastCall'.op = "removeService"
            => LET id == registryCall'.given
               IN  /\ registryCall'.returned \in BOOLEAN
                   /\ id \notin Range(regServices')
                   /\ id \notin DOMAIN instances'
                   /\ id \notin gsServices'
                   /\ id \notin Range(regServices)
                         => /\ registryCall'.returned = FALSE
                            /\ UNCHANGED <<regServices, instances, gsServices, providers,
                                           connections>>
      ]_vars

\* the service with id 1 was deployed and has been removed twice
C16_Witness ==
    /\ lastCall = Call("removeService", 1)
    /\ registryCall = [op |-> "removeService", given |-> 1, returned |-> FALSE]
    /\ nextId >= 1
    /\ calls = 3
    /\ 1 \notin Range(regServices)

\* the stages of a tick, by the notification each starts with
StageOrder ==
    << "tick_start", "traffic_generated", "requests_processed", "metrics_updated",
       "ui_update" >>

\* C17: within every executed tick the stages happen in this order: the
\* tick-started notification (its snapshot still shows the metrics of before),
\* traffic generation, routing and processing by the registry (of the batch
\* generated in this tick), the metrics update, the render notification (its
\* snapshot shows the updated metrics), then the termination check, which
\* announces game over exactly when the updated metrics say so.  The events of
\* a tick follow those of the ticks before it as one whole block, and nothing
\* but a tick adds events.
C17_StagesInOrder ==
    [][ /\ eventHistory' # eventHistory => lastCall'.op \in TickCalls \cup {"reset"}
        /\ (lastCall'.op \in TickCalls /\ eventHistory' # eventHistory)
              => LET k == Len(eventHistory)
                     new == SubSeq(eventHistory', k + 1, Len(eventHistory'))
                     handlers == SelectSeq(invoked', LAMBDA v : v.on # "clock")
                 IN  /\ SubSeq(eventHistory', 1, k) = eventHistory
                     /\ Len(new) = Len(StageOrder) + (IF metrics'.gameOver THEN 1 ELSE 0)
                     /\ \A i \in DOMAIN StageOrder : new[i].type = StageOrder[i]
                     /\ \A i \in DOMAIN new : new[i].tick = tick'
                     /\ metrics'.gameOver => new[Len(new)].type = "game_over"
                     /\ new[1].gameState.value.tick = tick'
                     /\ Read(new[1].gameState.value.metrics, metrics') = metrics
                     /\ tickResults'.offered = Len(currentRequests')
                     /\ Read(new[5].gameState.value.metrics, metrics') = metrics'
                     /\ [i \in DOMAIN handlers |-> handlers[i].handler]
                          = <<"generateTraffic", "processRequests">>
                            \o (IF metrics'.gameOver THEN <<"pause">> ELSE <<>>)
      ]_vars

\* two ticks have been executed, the second of which changed the metrics: the
\* events of tick 2 follow the five of tick 1
C17_Witness ==
    /\ lastCall.op \in TickCalls
    /\ Len(eventHistory) >= 10
    /\ eventHistory[1].tick = 1
    /\ eventHistory[6].type = "tick_start"
    /\ eventHistory[6].tick = 2
    /\ eventHistory[10].gameState.value.metrics # eventHistory[6].gameState.value.metrics

\* the positions in invs of the invocations of the added handler k for type
PositionsOf(invs, type, k) ==
    { i \in DOMAIN invs : invs[i].on = type /\ invs[i].handler = "added" /\ invs[i].index = k }

\* C18: a handler or a clock callback that throws does not abort the tick.  In
\* an executed tick every handler subscribed to one of the tick's notifications
\* is invoked exactly once, in subscription order, also after a handler that
\* threw; the later stages run (all five notifications are emitted, the
\* generator and the registry are invoked); at a clock firing every added
\* callback is invoked, and the clock stays armed for the next interval unless
\* the game is over.
C18_ThrowingHandlerDoesNotAbort ==
    [][ lastCall'.op \in TickCalls =>
          LET subs == subscribers.events
              cbs == subscribers.clock
              k0 == Len(eventHistory)
              new == SubSeq(eventHistory', k0 + 1, Len(eventHistory'))
          IN  /\ eventHistory' # eventHistory
                    => /\ \A i \in DOMAIN StageOrder : new[i].type = StageOrder[i]
                       /\ \E i, j \in DOMAIN invoked' :
                             /\ i < j
                             /\ invoked'[i].handler = "generateTraffic"
                             /\ invoked'[j].handler = "processRequests"
                       /\ \A k \in DOMAIN subs :
                             Cardinality(PositionsOf(invoked', subs[k].type, k)) = 1
                       /\ \A k1, k2 \in DOMAIN subs :
                             (k1 < k2 /\ subs[k1].type = subs[k2].type)
                                 => \A i \in PositionsOf(invoked', subs[k1].type, k1),
                                       j \in PositionsOf(invoked', subs[k2].type, k2) : i < j
              /\ lastCall'.op = "clock tick"
                    => /\ \A k \in DOMAIN cbs :
                             Cardinality(PositionsOf(invoked', "clock", k)) = 1
                       /\ ~metrics'.gameOver
                             => /\ clock'.isRunning
                                /\ clock'.timer = clock.timer + TickInterval
      ]_vars

\* the clock fired with a callback that throws added, and in the tick a
\* handler that throws was invoked
C18_Witness ==
    /\ lastCall.op = "clock tick"
    /\ \E i, j \in DOMAIN invoked :
          /\ invoked[i].on = "clock" /\ invoked[i].threw
          /\ invoked[j].on \in HandlerTypes /\ invoked[j].threw
    /\ clock.isRunning

\* C19: start() while the clock is running is a no-op and sets no second timer:
\* the clock never has more than one live interval, and has one exactly while
\* it is running.  However often start() was called, a firing of the interval
\* advances the tick counter by exactly 1, executes exactly one tick, the one
\* of that number, and is due again one interval later; one pause() leaves no
\* live interval.
C19_RepeatedStartOneTimer ==
    [][ /\ (lastCall'.op = "start" /\ clock.isRunning)
              => UNCHANGED <<clock, isRunning, tick, metrics, eventHistory>>
        /\ Cardinality(LiveTimers(clock')) <= 1
        /\ clock'.isRunning <=> LiveTimers(clock') # {}
        /\ lastCall'.op = "clock tick"
              => LET new == SubSeq(eventHistory', Len(eventHistory) + 1, Len(eventHistory'))
                 IN  /\ clock.timer = now
                     /\ clock'.tickCount = clock.tickCount + 1
                     /\ clock'.isRunning => clock'.timer = clock.timer + TickInterval
                     /\ Len(SelectSeq(new, LAMBDA e : e.type = "tick_start")) = 1
                     /\ tick' = clock'.tickCount
                     /\ \A i \in DOMAIN new : new[i].tick = clock'.tickCount
        /\ lastCall'.op = "pause"
              => (~clock'.isRunning /\ ~isRunning' /\ LiveTimers(clock') = {})
      ]_vars

\* start() was called on a clock whose interval, set by an earlier start(),
\* is due now (a start() that set a timer would have set it one interval from
\* now), after the first tick
C19_Witness ==
    /\ lastCall = Call("start", 0)
    /\ clock.isRunning
    /\ clock.timer = now
    /\ clock.tickCount = 1
    /\ tick = 1

\* what the holder of the snapshot s reads in it, the live objects being as given
SnapshotView(s, provs, c, m) ==
    [ tick |-> s.tick, isRunning |-> s.isRunning,
      providers |-> Read(s.providers, provs),
      providerCosts |-> Read(s.providerCosts, c.providers),
      metrics |-> Read(s.metrics, m),
      totalCost |-> Read(s.totalCost, c.metrics),
      serviceCount |-> s.serviceCount ]

\* the game state a snapshot is taken of
StateView ==
    [ tick |-> tick, isRunning |-> isRunning, providers |-> providers,
      providerCosts |-> costs.providers, metrics |-> metrics,
      totalCost |-> costs.metrics, serviceCount |-> Cardinality(gsServices) ]

\* C20: a snapshot is an independent, consistent copy.  getSnapshot() returns
\* the game state as it is at the call; a tick, a deployment, a removal, a
\* start or a reset that comes later changes nothing of what the holder of the
\* returned snapshot reads in it, nor of what the render notifications already
\* in the event history show; a write into the snapshot changes nothing of
\* the game state; and the snapshot of the render notification of an executed
\* tick shows the tick number, the provider id lists and costs, the metrics
\* and the service count the game state has when the tick is over.
C20_SnapshotIsIndependentCopy ==
    [][ /\ lastCall'.op = "getSnapshot"
             => /\ SnapshotView(snapshot', providers', costs', metrics') = StateView'
                /\ StateView' = StateView
        /\ lastCall'.op \in {"executeTick", "deployService", "removeService", "reset", "start"}
             => /\ SnapshotView(snapshot', providers', costs', metrics')
                      = SnapshotView(snapshot, providers, costs, metrics)
                /\ \A i \in DOMAIN eventHistory \cap DOMAIN eventHistory' :
                      (eventHistory'[i] = eventHistory[i] /\ eventHistory[i].type = "ui_update")
                        => SnapshotView(eventHistory[i].gameState.value,
                                        providers', costs', metrics')
                             = SnapshotView(eventHistory[i].gameState.value,
                                            providers, costs, metrics)
        /\ lastCall'.op = "write to snapshot"
             => UNCHANGED <<tick, isRunning, providers, costs, metrics, gsServices,
                            regServices, instances, eventHistory>>
        /\ (lastCall'.op = "executeTick" /\ Len(eventHistory') > Len(eventHistory))
             => LET new == SubSeq(eventHistory', Len(eventHistory) + 1, Len(eventHistory'))
                    rendered == SelectSeq(new, LAMBDA e : e.type = "ui_update")
                IN  /\ Len(rendered) = 1
                    /\ ~rendered[1].gameState.shared
                    /\ LET shown == SnapshotView(rendered[1].gameState.value,
                                                 providers', costs', metrics')
                       IN  /\ shown.tick = tick'
                           /\ shown.providers = providers'
                           /\ shown.providerCosts = costs'.providers
                           /\ shown.metrics = metrics'
                           /\ shown.totalCost = costs'.metrics
                           /\ shown.serviceCount = Cardinality(gsServices')
      ]_vars

\* a snapshot taken with a service deployed and before a tick, read after
\* that tick: the tick number, the metrics and the costs have moved on, the
\* snapshot shows them as they were
C20_Witness ==
    /\ lastCall.op = "executeTick"
    /\ snapshot # NoSnapshot
    /\ gsServices # {}
    /\ snapshot.serviceCount = Cardinality(gsServices)
    /\ Len(eventHistory) > 0
    /\ snapshot.tick = 0
    /\ tick > 0
    /\ Read(snapshot.metrics, metrics) # metrics
    /\ Read(snapshot.totalCost, costs.metrics) = <<>>
    /\ costs.metrics # <<>>

\* C21: no payload of a notification of a tick shares state with the core.
\* Whatever the added handlers write to the payloads they are given, after an
\* executed tick the batch of the tick is the batch the generator produced and
\* the metrics are what updateMetrics made of the totals of the tick (the
\* metrics of before when the batch was empty).
C21_PayloadWritesDoNotReachCore ==
    [][ (lastCall'.op \in TickCalls /\ Len(eventHistory') > Len(eventHistory))
          => /\ currentRequests' \in { GenerateTraffic(tick', generator, d).requests :
                                        d \in LoopDraws }
             /\ metrics' = (IF tickResults'.offered > 0
                            THEN UpdateMetrics(metrics, tickResults')
                            ELSE metrics)
      ]_vars

\* C22: after a metrics update the processed, dropped and blocked figures and
\* the availability are those of that update's totals alone: the figures are
\* the totals, the availability is processed / (processed + dropped), and
\* with nothing processed or dropped it is the 100 an update gives from the
\* initial state, whatever the earlier updates were.
C22_MetricsOfThisTickOnly ==
    [][ lastCall'.op = "updateMetrics"
          => LET r == tickResults'
                 total == r.processed + r.dropped
             IN  /\ metrics'.requestsProcessed = r.processed
                 /\ metrics'.requestsDropped = r.dropped
                 /\ metrics'.requestsBlocked = r.blocked
                 /\ total > 0 => metrics'.availability.p * total
                                   = r.processed * metrics'.availability.t
                 /\ total = 0 => metrics'.availability.p = metrics'.availability.t
      ]_vars

\* the spike timers pending
SpikeTimers == { i \in DOMAIN timeouts : timeouts[i].kind = "spike" }

\* C23: triggerTrafficSpike(m, d) sets the multiplier to m and sets a timer due
\* d seconds later; a timer fires exactly when it is due, of itself, and sets
\* the multiplier to 1; the multiplier is other than 1 only while such a timer
\* is pending; and a multiplier other than 1 always comes back to 1.
C23_SpikeReverts ==
    /\ [][ /\ lastCall'.op = "triggerTrafficSpike"
               => /\ generator'.currentTrafficMultiplier = lastCall'.arg
                  /\ Len(timeouts') = Len(timeouts) + 1
                  /\ timeouts'[Len(timeouts')].kind = "spike"
                  /\ timeouts'[Len(timeouts')].due - now \in OverlapDurations
           /\ lastCall'.op = "spike timeout"
               => /\ generator'.currentTrafficMultiplier = 1
                  /\ Len(timeouts') = Len(timeouts) - 1
                  /\ \E i \in SpikeTimers : timeouts[i].due = now
           /\ lastCall'.op = "time passes"
               => \A i \in SpikeTimers : timeouts[i].due >= now'
          ]_vars
    /\ [](generator.currentTrafficMultiplier # 1 => SpikeTimers # {})
    /\ [](\A i \in SpikeTimers : timeouts[i].due >= now /\ timeouts[i].due <= MaxTime)
    /\ (generator.currentTrafficMultiplier # 1) ~> (generator.currentTrafficMultiplier = 1)

\* a spike was triggered while another was on; the timer of the first has
\* fired and the multiplier is 1, the timer of the second is still pending
C23_Witness ==
    /\ lastCall.op = "spike timeout"
    /\ generator.currentTrafficMultiplier = 1
    /\ Cardinality(SpikeTimers) = 1
    /\ now > 0

\* the number of attack requests of a batch
AttackCount(requests) == Len(SelectSeq(requests, LAMBDA r : r.type = "attack"))

\* C24: one attack episode at a time, tick by tick.  A generated tick with an
\* episode in progress emits 50 to 150 attack requests and takes exactly 1
\* off its remaining duration, which nothing sets anew; a generated tick with
\* none in progress either emits no attack request and starts nothing, or
\* starts an episode of a duration d of 5 to 15, emits 50 to 150 attack
\* requests and leaves d - 1; so an episode of duration d emits on exactly d
\* consecutive generated ticks.  Between ticks an attack is in progress exactly
\* when its remaining duration is greater than 0.
C24_OneAttackEpisode ==
    /\ [][ lastCall'.op = "generateTraffic"
             => LET n == AttackCount(currentRequests')
                    left == generator'.attackDuration
                IN  IF generator.attackInProgress
                    THEN /\ left = generator.attackDuration - 1
                         /\ n >= 50 /\ n <= 150
                    ELSE \/ /\ n = 0
                            /\ ~generator'.attackInProgress
                            /\ left = generator.attackDuration
                         \/ /\ n >= 50 /\ n <= 150
                            /\ left + 1 >= 5 /\ left + 1 <= 15
          ]_vars
    /\ [](generator.attackInProgress <=> generator.attackDuration > 0)

\* the last tick of an episode: it emitted attack requests and nothing is
\* left of the duration
C24_Witness ==
    /\ lastCall.op = "generateTraffic"
    /\ AttackCount(currentRequests) = 149
    /\ ~generator.attackInProgress
    /\ generator.attackDuration = 0

\* C25: replay is deterministic.  The batch and the generator state a
\* generated tick leaves are determined by the tick number and the state
\* before: what the tick produced is what it produces with every value the
\* random draws can take, so that a second run given the same commands at
\* the same ticks is in the same state after every tick.
C25_ReplayDeterministic ==
    [][ lastCall'.op = "generateTraffic"
          => \A d \in Draws(AttackDurationDraws, AttackVolumeDraws) :
                GenerateTraffic(lastCall'.arg, generator, d)
                  = [requests |-> currentRequests', generator |-> generator']
      ]_vars

\* the positions (from 0, as forEach counts them) of the requests of a batch
\* of n that go to the service at position j (from 0) of k services
PositionsFor(n, j, k) == { i \in 0..(n - 1) : i % k = j }

\* the elements of seq at the positions of P (from 0), in order
RECURSIVE Picked(_, _, _)
Picked(seq, P, i) ==
    IF i >= Len(seq) THEN <<>>
    ELSE (IF i \in P THEN <<seq[i + 1]>> ELSE <<>>) \o Picked(seq, P, i + 1)

\* C26: with k >= 1 services deployed, of whatever type, the batch of a tick
\* is dealt round-robin: the service at position j of the deployment order
\* gets the requests at the positions i with i mod k = j, in order, and no
\* other; every request goes to exactly one service; the shares of two
\* services differ in size by at most 1; a service is offered its share.
C26_RoundRobinRouting ==
    [][ (lastCall'.op \in TickCalls /\ Len(eventHistory') > Len(eventHistory)
         /\ Len(regServices) >= 1)
          => LET k == Len(regServices)
                 n == Len(currentRequests')
                 routed == RouteRequests(regServices, currentRequests')
                 share(j) == IF regServices[j + 1] \in DOMAIN routed
                             THEN routed[regServices[j + 1]] ELSE <<>>
                 sum[j \in 0..k] == IF j = 0 THEN 0 ELSE sum[j - 1] + Len(share(j - 1))
             IN  /\ DOMAIN routed \subseteq Range(regServices)
                 /\ \A j \in 0..(k - 1) :
                       /\ share(j) = Picked(currentRequests', PositionsFor(n, j, k), 0)
                       /\ \A j2 \in 0..(k - 1) :
                             /\ Len(share(j)) - Len(share(j2)) <= 1
                             /\ j # j2 => PositionsFor(n, j, k) \cap PositionsFor(n, j2, k) = {}
                       /\ regServices[j + 1] \in DOMAIN svcResults'
                             => svcResults'[regServices[j + 1]].offered = Len(share(j))
                       /\ (Len(share(j)) > 0) <=> (regServices[j + 1] \in DOMAIN svcResults')
                 /\ sum[k] = n
                 /\ UNION { PositionsFor(n, j, k) : j \in 0..(k - 1) } = 0..(n - 1)
      ]_vars

\* a tick with two services, a compute instance and a firewall, and a batch
\* of 3: the first deployed was offered 2, the second 1
C26_Witness ==
    /\ lastCall.op \in TickCalls
    /\ Len(regServices) = 2
    /\ Len(currentRequests) = 3
    /\ instances[regServices[1]].kind # instances[regServices[2]].kind
    /\ DOMAIN svcResults = Range(regServices)
    /\ svcResults[regServices[1]].offered = 2
    /\ svcResults[regServices[2]].offered = 1

\* C27: after processRequests on a batch of n >= 1 requests, the load ratio
\* of an instance of any variant is n divided by the capacity the instance
\* has, and is not negative.
C27_LoadIsOfferedOverCapacity ==
    \A id \in DOMAIN svcResults :
        svcResults[id].offered > 0
            => LET load == instances[id].currentLoad
               IN  /\ load.den > 0
                   /\ load.num >= 0
                   /\ load.num * instances[id].capacity = svcResults[id].offered * load.den

\* the failovers of the instance that have started and not completed
FailoverTimers == { i \in DOMAIN timeouts : timeouts[i].kind = "failover" }

\* C30: from the start of a Multi-AZ failover until it completes and the
\* zones are swapped, every batch offered to the database is dropped whole.
C30_FailoverDropsUntilComplete ==
    [][ (lastCall'.op = "processRequests" /\ FailoverTimers # {})
          => /\ svcResults'[1].dropped = svcResults'[1].offered
             /\ svcResults'[1].processed = 0
      ]_vars

\* C28: processRequests on a batch whose load ratio is not above the
\* instance's failure threshold drops no request, whatever the variant and
\* also when the instance is degraded, unless the call ended in a spot
\* interruption (whole batch dropped, health left as it was) or started a
\* Multi-AZ failover (whole batch dropped, timeout set).
C28_NoDropsUpToFailureThreshold ==
    [][ lastCall'.op = "processRequests"
          => \A id \in DOMAIN svcResults' :
               LET s == instances'[id]
                   r == svcResults'[id]
               IN  (r.offered > 0 /\ ~LoadAbove(s.currentLoad, FailureThreshold(s.kind)))
                     => \/ r.dropped = 0 /\ r.processed + r.blocked = r.offered
                        \/ /\ s.spotInstance
                           /\ s.health = instances[id].health
                           /\ r.dropped = r.offered
                        \/ /\ s.multiAZ
                           /\ Len(timeouts') = Len(timeouts) + 1
                           /\ r.dropped = r.offered
      ]_vars

\* an instance that can have no spot interruption and no failover, degraded
\* by a batch at its capacity, has processed the whole batch
C28_Witness ==
    /\ lastCall.op = "processRequests"
    /\ \E id \in DOMAIN svcResults :
          /\ ~instances[id].spotInstance
          /\ ~instances[id].multiAZ
          /\ instances[id].health = "degraded"
          /\ svcResults[id].offered = instances[id].capacity
          /\ svcResults[id].dropped = 0
          /\ svcResults[id].processed = svcResults[id].offered

\* how often the term x occurs in the sum
TermCount(sum, x) == Cardinality({ i \in DOMAIN sum : sum[i] = x })

\* two sums of the same terms, in whatever order
SameSum(a, b) == \A x \in Range(a) \cup Range(b) : TermCount(a, x) = TermCount(b, x)

\* getCost() of the instances the registry holds under provider p, once each
RECURSIVE DeployedCost(_, _, _)
DeployedCost(ids, insts, p) ==
    IF ids = <<>> THEN <<>>
    ELSE (IF insts[Head(ids)].provider = p THEN <<GetCost(insts[Head(ids)])>> ELSE <<>>)
         \o DeployedCost(Tail(ids), insts, p)

\* C29: after the metrics update of a tick, the total of every provider is
\* the sum of getCost() over the instances deployed under that provider at
\* that moment, each once, whatever the totals were before, and
\* metrics.totalCost is the sum of the three provider totals.
C29_CostsOfDeployedServices ==
    [][ (lastCall'.op \in TickCalls /\ Len(eventHistory') > Len(eventHistory)
         /\ tickResults'.offered > 0)
          => /\ \A p \in Providers :
                   SameSum(costs'.providers[p], DeployedCost(regServices', instances', p))
             /\ SameSum(costs'.metrics,
                        costs'.providers["aws"] \o costs'.providers["gcp"]
                          \o costs'.providers["azure"])
      ]_vars

\* how often the id occurs in the list
Occurrences(list, id) == Cardinality({ i \in DOMAIN list : list[i] = id })

\* C33: in every state deployService, removeService and ticks lead to, the
\* id of a deployed service is once in the list of its own provider and in
\* no other list, and every id of a provider list is a key of the
\* registry's and of the game state's service map.
C33_ProviderListsMatchServices ==
    /\ \A id \in Range(regServices) \cap gsServices :
          \A p \in Providers :
              Occurrences(providers[p], id) = (IF p = instances[id].provider THEN 1 ELSE 0)
    /\ \A p \in Providers :
          Range(providers[p]) \subseteq (Range(regServices) \cap gsServices)

\* the list without its element at position i
WithoutAt(list, i) == SubSeq(list, 1, i - 1) \o SubSeq(list, i + 1, Len(list))

\* C34: the spike triggered last stays in effect for its own duration: a
\* timer that takes a multiplier other than 1 back to 1 is not the timer of
\* an earlier spike firing before the timer of the spike triggered last
\* (whether the earlier spike was still on or had been ended by reset()).
C34_LastSpikeKeepsItsDuration ==
    [][ (lastCall'.op = "spike timeout" /\ generator.currentTrafficMultiplier # 1
         /\ generator'.currentTrafficMultiplier = 1)
          => \E i \in SpikeTimers :
                /\ timeouts' = WithoutAt(timeouts, i)
                /\ timeouts[i].due >= timeouts[Len(timeouts)].due
      ]_vars

\* how many game-over notifications the history holds
GameOverEvents(history) == Len(SelectSeq(history, LAMBDA e : e.type = "game_over"))

\* C36: the terminal flag becomes set only in a tick, and that tick emits
\* the game-over notification as its last event, right after its render
\* notification, and leaves the loop paused; no other step emits it; so the
\* history of a game (it is cleared by reset) holds the notification once
\* when the flag is set and not at all when it is not.
C36_GameOverOncePerGame ==
    /\ [][ /\ (~metrics.gameOver /\ metrics'.gameOver)
               => /\ lastCall'.op \in TickCalls
                  /\ Len(eventHistory') = Len(eventHistory) + EventsPerTick
                  /\ eventHistory'[Len(eventHistory')].type = "game_over"
                  /\ eventHistory'[Len(eventHistory') - 1].type = "ui_update"
                  /\ eventHistory'[Len(eventHistory')].tick = tick'
                  /\ GameOverEvents(eventHistory') = GameOverEvents(eventHistory) + 1
                  /\ ~isRunning'
                  /\ ~clock'.isRunning
                  /\ clock'.timer = NoTimer
           /\ GameOverEvents(eventHistory') > GameOverEvents(eventHistory)
               => (~metrics.gameOver /\ metrics'.gameOver)
           /\ (metrics.gameOver /\ lastCall'.op # "reset")
               => /\ metrics'.gameOver
                  /\ eventHistory' = eventHistory
          ]_vars
    /\ [](GameOverEvents(eventHistory) = (IF metrics.gameOver THEN 1 ELSE 0))

\* the game is over, and a tick that came after was refused: the history
\* still holds the one notification
C36_Witness ==
    /\ lastCall.op \in TickCalls
    /\ metrics.gameOver
    /\ calls = 3
    /\ tick = 1
    /\ lastCall.arg = 2
    /\ GameOverEvents(eventHistory) = 1
    /\ eventHistory[Len(eventHistory)].type = "game_over"

C35_EmitInvokesAllSubscribed ==
    [][ lastCall'.op = "emit"
          => /\ Len(invoked') = Len(subscribers.events)
             /\ \A i \in DOMAIN invoked' : invoked'[i].index = subscribers.events[i].id
      ]_vars

\* desiredCapacity is within [minInstances, maxInstances]
InScalingRange(s) ==
    /\ s.autoScaling.desiredCapacity >= s.autoScaling.minInstances
    /\ s.autoScaling.desiredCapacity <= s.autoScaling.maxInstances

----------------------------------------------------------------------------
(* AWSQueue: FIFO order, deduplication, redelivery *)

\* the accepted sends of one group carry increasing sequence numbers
SequenceNumbersIncrease ==
    \A i, j \in DOMAIN QueueSeen.accepted :
        /\ i < j
        /\ QueueSeen.accepted[i].messageGroupId = QueueSeen.accepted[j].messageGroupId
        => QueueSeen.accepted[i].sequenceNumber < QueueSeen.accepted[j].sequenceNumber

\* a receiveMessage delivers no message ahead of an earlier-sent message of
\* its group that is stored and was never delivered
DeliveredInSendOrder ==
    lastCall'.op = "receiveMessage"
    => LET q == instances[1]
           received == svcResults'[1].result.messages
       IN  \A i \in DOMAIN received :
             \A earlier \in Range(q.messages) :
                /\ earlier < received[i]
                /\ q.objects[earlier].messageGroupId = q.objects[received[i]].messageGroupId
                /\ q.objects[earlier].approximateReceiveCount = 0
                => \E k \in 1..(i - 1) : received[k] = earlier

\* C31: in a FIFO queue the messages of one group get strictly increasing
\* sequence numbers in send order, whatever sends, receives, deletes and
\* purges come between, and receiveMessage delivers them in that order.
C31_FifoGroupOrder ==
    /\ [](instances[1].queueType = "fifo" => SequenceNumbersIncrease)
    /\ [][instances[1].queueType = "fifo" => DeliveredInSendOrder]_vars

\* the deduplication id of the send was used by an accepted send less than
\* window seconds ago
UsedWithin(d, window) ==
    \E i \in DOMAIN QueueSeen.accepted :
        /\ QueueSeen.accepted[i].deduplicationId = d
        /\ now - QueueSeen.accepted[i].at < window

\* a sendMessage step with a message group and a deduplication id is
\* rejected as a duplicate exactly when the id was used within the window,
\* and a rejected one leaves the store, the sequence numbers and
\* messagesSent as they were
DuplicatesWithin(window) ==
    LET q == instances[1]
        z == instances'[1]
        req == svcResults'[1].request
        rejected == svcResults'[1].result.error = "Duplicate message"
    IN  /\ lastCall'.op = "sendMessage"
        /\ q.queueType = "fifo"
        /\ req.messageGroupId # 0
        /\ req.deduplicationId # 0
        => /\ rejected <=> UsedWithin(req.deduplicationId, window)
           /\ rejected
                => /\ ~svcResults'[1].result.success
                   /\ z.nextMessageId = q.nextMessageId
                   /\ Range(z.messages) \subseteq Range(q.messages)
                   /\ z.groupSequenceNumbers = q.groupSequenceNumbers
                   /\ z.queueMetrics.messagesSent = q.queueMetrics.messagesSent
           /\ ~rejected
                => /\ svcResults'[1].result.success
                   /\ z.nextMessageId = q.nextMessageId + 1
                   /\ z.queueMetrics.messagesSent = q.queueMetrics.messagesSent + 1

\* C32: in a FIFO queue a sendMessage is rejected as a duplicate if and only
\* if its deduplication id was used by an accepted send within the
\* deduplication window of 5 minutes; a rejected send stores no message,
\* takes no sequence number and leaves messagesSent, and the id is accepted
\* again once the window has elapsed.
C32_DuplicateWithinWindow == [][DuplicatesWithin(DeduplicationWindow)]_vars

\* the stored messages that were received and whose visibility timeout,
\* counted from the receive or from a later changeMessageVisibility, is over
TimedOutInFlight(q, t) ==
    { id \in Range(q.messages) :
        LET m == q.objects[id]
            start == IF m.visibilityStartTime # 0 THEN m.visibilityStartTime
                     ELSE m.approximateFirstReceiveTimestamp
        IN  /\ m.approximateReceiveCount >= 1
            /\ DateNow(t) > start + m.visibilityTimeout }

\* a receiveMessage that has room left returns the received messages whose
\* visibility timeout is over, and their receive counts grow
RedeliversTimedOut ==
    LET q == instances[1]
        req == svcResults'[1].request
        received == svcResults'[1].result.messages
        room == IF req.maxNumberOfMessages = 0 THEN 1 ELSE req.maxNumberOfMessages
    IN  lastCall'.op = "receiveMessage" /\ Len(received) < room
        => \A id \in TimedOutInFlight(q, now) :
              /\ id \in Range(received)
              /\ id \in DOMAIN instances'[1].objects
              /\ instances'[1].objects[id].approximateReceiveCount
                   = q.objects[id].approximateReceiveCount + 1

\* with a dead-letter queue, processRequests leaves no message in flight
\* whose receive count has reached maxReceiveCount: it is in the
\* dead-letter store and in no other map
DeadLettersMoved ==
    LET z == instances'[1]
    IN  lastCall'.op # "time passes" /\ svcResults'[1].viaProcessRequests
           /\ z.deadLetterQueue.enabled
        => /\ \A id \in Range(z.inFlightMessages) \cup Range(z.messages) :
                 z.objects[id].approximateReceiveCount < z.deadLetterQueue.maxReceiveCount
           /\ \A id \in Range(z.deadLetterMessages) :
                 z.objects[id].approximateReceiveCount >= z.deadLetterQueue.maxReceiveCount

\* C38: a message that was received and not deleted is receivable again
\* once its visibility timeout is over, its receive count growing with each
\* receive, and with a dead-letter queue it is moved to the dead-letter
\* store when the count reaches maxReceiveCount.
C38_RedeliveryAfterVisibilityTimeout ==
    [][RedeliversTimedOut /\ DeadLettersMoved]_vars

----------------------------------------------------------------------------
(* AWSCache: the size of the store *)

\* C39: the number of stored cache entries never exceeds the maximum cache
\* size of the node, and a set of a new key on a full cache evicts one entry
\* before it inserts, also when every stored entry was last accessed at the
\* current clock value.
C39_CacheSizeBounded ==
    /\ [](Len(instances[1].cacheData) <= GetMaxCacheSize(instances[1]))
    /\ [][ /\ lastCall'.op = "set"
           /\ lastCall'.arg = 1
           /\ Len(instances[1].cacheData) = GetMaxCacheSize(instances[1])
           => /\ instances'[1].cacheStats.evictions = instances[1].cacheStats.evictions + 1
              /\ Len(instances'[1].cacheData) <= GetMaxCacheSize(instances[1])
       ]_vars

====
